---- MODULE Spec2Model ----
(***************************************************************************)
(* Model of cdx-imbalance-data: the DTCC report preprocessing              *)
(* (dtcc_fetcher.preprocess_dtcc_trades), the trade classifier             *)
(* (trade_classifier.classify_trades with                                  *)
(* economic_conversions.normalize_dtcc_quote), the market series of        *)
(* run_classification_test.plot_classified_trades, the slice poller        *)
(* (dtcc_fetcher.poll_for_new_slices) and the day aggregator               *)
(* (data_aggregator.aggregate_data_for_day, apply_product_filtering).      *)
(*                                                                         *)
(* A pandas DataFrame is a record [cols, rows]: cols is the sequence of    *)
(* column names, rows the sequence of rows, each row a sequence of cells   *)
(* in column order.  A cell is a record [k, n, s]: k is the Python type    *)
(* of the value, n its number and s its text.                              *)
(***************************************************************************)
EXTENDS Integers, Sequences, FiniteSets, TLC

VARIABLES
    raw_df,             \* the raw DTCC file given to preprocess_dtcc_trades
    resolved_df,        \* what preprocess_dtcc_trades returned for raw_df
    rerun_df,           \* what it returned for resolved_df
    stage,              \* "ingest", "resolved", "rerun"; "classify"; "synthesize";
                        \* "fetch" in the poller, the aggregator and the filter
    dtcc_trades_df,     \* the trades given to classify_trades
    bloomberg_mids_df,  \* the market points given to classify_trades
    classified_df,      \* what classify_trades returned
    outcome,            \* "none", "returned" or "raised"
    bloomberg_ticks_df, \* the market ticks given to plot_classified_trades
    market_state,       \* the bid, ask and mid series it builds from them
    pc,                 \* the position in poll_for_new_slices or in
                        \* aggregate_data_for_day; "idle" outside them
    today,              \* the UTC date the poller last read from the clock
    day_offset,         \* day_offset of the lookback loop
    scan_date,          \* the date of the slices being probed
    current_seq,        \* the next sequence number to request
    attempt,            \* the iterations of the for loop that have started
    last_processed_sequences, \* date -> last sequence processed (one asset class)
    cycles,             \* the polling cycles started
    requests,           \* the downloads made so far, in order
    all_dataframes,     \* the sources collected by aggregate_data_for_day
    aggregated_df,      \* what aggregate_data_for_day returned
    target_upi,         \* config.TARGET_UPI
    product_id_pattern, \* config.DTCC_PRODUCT_ID_PATTERN
    unfiltered_df,      \* the frame given to apply_product_filtering
    filtered            \* whether it returned, and what

resolveVars == <<raw_df, resolved_df, rerun_df>>
classifyVars == <<dtcc_trades_df, bloomberg_mids_df, classified_df, outcome>>
synthVars == <<bloomberg_ticks_df, market_state>>
filterVars == <<target_upi, product_id_pattern, unfiltered_df, filtered>>
frameVars == <<raw_df, resolved_df, rerun_df, stage, dtcc_trades_df, bloomberg_mids_df,
               classified_df, outcome, bloomberg_ticks_df, market_state, filterVars>>
fetchVars == <<pc, today, day_offset, scan_date, current_seq, attempt,
               last_processed_sequences, cycles, requests, all_dataframes,
               aggregated_df, filterVars>>
vars == <<raw_df, resolved_df, rerun_df, stage, dtcc_trades_df, bloomberg_mids_df,
          classified_df, outcome, bloomberg_ticks_df, market_state, pc, today,
          day_offset, scan_date, current_seq, attempt, last_processed_sequences,
          cycles, requests, all_dataframes, aggregated_df, target_upi,
          product_id_pattern, unfiltered_df, filtered>>

(***************************************************************************)
(* Bounds of the model.                                                    *)
(***************************************************************************)
MaxReports == 3
MaxTime == 3

(***************************************************************************)
(* Cells.                                                                  *)
(***************************************************************************)
Cell(k, n, s) == [k |-> k, n |-> n, s |-> s]
\* a str that is no number and no timestamp
Text(s) == Cell("text", 0, s)
\* a str holding the numeral of n
NumStr(n) == Cell("numstr", n, "")
\* a str holding the timestamp of second n
TsStr(n) == Cell("tsstr", n, "")
\* a pandas Timestamp, and NaT
Ts(n) == Cell("ts", n, "")
NaT == Cell("NaT", 0, "")
\* a float, and float NaN
Float(n) == Cell("float", n, "")
NaN == Cell("nan", 0, "")
\* Python None
PyNone == Cell("None", 0, "")

IsNa(c) == c.k \in {"nan", "NaT", "None"}

(***************************************************************************)
(* Column names.  A name is its words and the separator that joins them; a *)
(* word is its letters (stem, in lower case) and its casing: "U" all upper *)
(* case (ID), "T" first letter upper case (Id), "L" all lower case (id),   *)
(* "M" any other mix (Spread-Leg), "N" for a word without letters (1).     *)
(***************************************************************************)
W(stem, cas) == [stem |-> stem, cas |-> cas]
Name(sep, words) == [sep |-> sep, words |-> words]
Recase(w, cas) == IF w.cas = "N" THEN w ELSE W(w.stem, cas)
MapWords(words, cas) == [i \in DOMAIN words |-> Recase(words[i], cas)]

\* col.replace(" ", "_").upper()
UpperSnake(col) == Name("_", MapWords(col.words, "U"))

\* " ".join(word.capitalize() for word in col.split("_"))
TitleCase(col) ==
    IF col.sep = "_"
    THEN Name(" ", MapWords(col.words, "T"))
    ELSE Name(col.sep,
              [i \in DOMAIN col.words |->
                   Recase(col.words[i], IF i = 1 THEN "T" ELSE "L")])

Title(stems) == Name(" ", [i \in DOMAIN stems |-> W(stems[i], "T")])
Snake(stems) == Name("_", [i \in DOMAIN stems |-> W(stems[i], "L")])
Leg1(stem) == Name(" ", <<W(stem, "T"), W("1", "N")>>)

\* the column names the code spells out
ExecutionTimestamp == Title(<<"execution", "timestamp">>)
DisseminationIdentifier == Title(<<"dissemination", "identifier">>)
OriginalDisseminationIdentifier == Title(<<"original", "dissemination", "identifier">>)
\* "Original Dissemination ID": the last word is all upper case
OriginalDisseminationID ==
    Name(" ", <<W("original", "T"), W("dissemination", "T"), W("id", "U")>>)
ProductName == Title(<<"product", "name">>)
Price == Title(<<"price">>)
PriceNotation == Title(<<"price", "notation">>)
SpreadLeg1 == Leg1("spread-leg")
SpreadNotationLeg1 ==
    Name(" ", <<W("spread", "T"), W("notation-leg", "T"), W("1", "N")>>)
NotionalAmountLeg1 ==
    Name(" ", <<W("notional", "T"), W("amount-leg", "T"), W("1", "N")>>)
NotionalAmountCurrencyLeg1 ==
    Name(" ", <<W("notional", "T"), W("amount", "T"), W("currency-leg", "T"),
                W("1", "N")>>)
ActionType == Title(<<"action", "type">>)
EventType == Title(<<"event", "type">>)
UniqueProductIdentifier == Title(<<"unique", "product", "identifier">>)

\* column_map_to_final, as the sequence of its (key, value) pairs
column_map_to_final ==
    << <<ExecutionTimestamp, Snake(<<"execution", "timestamp", "utc">>)>>,
       <<DisseminationIdentifier, Snake(<<"dissemination", "id">>)>>,
       <<OriginalDisseminationIdentifier, Snake(<<"original", "dissemination", "id">>)>>,
       <<ProductName, Snake(<<"product", "name">>)>>,
       <<Price, Snake(<<"price", "value">>)>>,
       <<PriceNotation, Snake(<<"price", "notation">>)>>,
       <<SpreadLeg1, Snake(<<"spread", "value">>)>>,
       <<SpreadNotationLeg1, Snake(<<"spread", "notation">>)>>,
       <<NotionalAmountLeg1, Snake(<<"notional", "amount">>)>>,
       <<NotionalAmountCurrencyLeg1, Snake(<<"notional", "currency">>)>>,
       <<ActionType, Snake(<<"action", "type">>)>>,
       <<EventType, Snake(<<"event", "type">>)>>,
       <<UniqueProductIdentifier, Snake(<<"unique", "product", "identifier">>)>> >>

execution_timestamp_utc == Snake(<<"execution", "timestamp", "utc">>)
dissemination_id == Snake(<<"dissemination", "id">>)
original_dissemination_id == Snake(<<"original", "dissemination", "id">>)
action_type == Snake(<<"action", "type">>)
spread_value == Snake(<<"spread", "value">>)
price_value == Snake(<<"price", "value">>)
notional_amount == Snake(<<"notional", "amount">>)

(***************************************************************************)
(* The variables of the poller and of the aggregator, outside their runs.  *)
(***************************************************************************)
\* the empty dict
EmptyDict == [d \in {} |-> 0]

\* apply_product_filtering has not been called
NoFilter ==
    /\ target_upi = PyNone
    /\ product_id_pattern = PyNone
    /\ unfiltered_df = [cols |-> <<>>, rows |-> <<>>]
    /\ filtered = [returned |-> FALSE, df |-> [cols |-> <<>>, rows |-> <<>>]]

IdleFetch ==
    /\ pc = "idle"
    /\ today = 0
    /\ day_offset = 0
    /\ scan_date = 0
    /\ current_seq = 0
    /\ attempt = 0
    /\ last_processed_sequences = EmptyDict
    /\ cycles = 0
    /\ requests = <<>>
    /\ all_dataframes = <<>>
    /\ aggregated_df = <<>>

NoFetch == IdleFetch /\ NoFilter

(***************************************************************************)
(* DataFrames.                                                             *)
(***************************************************************************)
Frame(cols, rows) == [cols |-> cols, rows |-> rows]
\* pd.DataFrame()
EmptyFrame == Frame(<<>>, <<>>)
\* df.empty
IsEmpty(df) == Len(df.cols) = 0 \/ Len(df.rows) = 0

HasCol(df, col) == \E i \in DOMAIN df.cols : df.cols[i] = col
ColIndex(df, col) == CHOOSE i \in DOMAIN df.cols : df.cols[i] = col
\* row[col]
At(df, row, col) == row[ColIndex(df, col)]

\* df.rename(columns={col: f(col)})
RenameUpper(df) == Frame([i \in DOMAIN df.cols |-> UpperSnake(df.cols[i])], df.rows)
RenameTitle(df) == Frame([i \in DOMAIN df.cols |-> TitleCase(df.cols[i])], df.rows)

\* rows of df with column col replaced by f applied to it
SetCell(row, i, c) == [row EXCEPT ![i] = c]

(***************************************************************************)
(* preprocess_dtcc_trades.                                                 *)
(***************************************************************************)
\* pd.to_datetime(value, errors='coerce', utc=True) of one cell
to_datetime(c) ==
    IF c.k \in {"tsstr", "ts"} THEN Ts(c.n) ELSE NaT

\* pd.to_numeric(value, errors='coerce') of one cell
to_numeric(c) ==
    IF c.k \in {"numstr", "float"} THEN Float(c.n) ELSE NaN

\* the scale factor of line 289
SPREAD_TO_BPS == 10000

\* faulty variant of TimesScale: the value is scaled a second time
TimesScaleTwice(c) ==
    IF c.k = "float" THEN Float(c.n * SPREAD_TO_BPS * SPREAD_TO_BPS) ELSE c

\* value * 10000 of one float cell
TimesScale(c) == IF c.k = "float" THEN Float(c.n * SPREAD_TO_BPS) ELSE c

\* df[col] = pd.to_datetime(df[col], errors='coerce', utc=True)
ToDatetimeCol(df, col) ==
    LET i == ColIndex(df, col)
    IN Frame(df.cols,
             [r \in DOMAIN df.rows |-> SetCell(df.rows[r], i, to_datetime(df.rows[r][i]))])

\* df[col] = pd.to_numeric(df[col], errors='coerce')
ToNumericCol(df, col) ==
    LET i == ColIndex(df, col)
    IN Frame(df.cols,
             [r \in DOMAIN df.rows |-> SetCell(df.rows[r], i, to_numeric(df.rows[r][i]))])

\* df[col] = df[col] * 10000
ScaleCol(df, col) ==
    LET i == ColIndex(df, col)
    IN Frame(df.cols,
             [r \in DOMAIN df.rows |-> SetCell(df.rows[r], i, TimesScale(df.rows[r][i]))])

\* faulty variant of DropNa: the rows without a value are kept
KeepNa(df, col) == df

\* df.dropna(subset=[col])
DropNa(df, col) ==
    LET i == ColIndex(df, col)
        keep(row) == ~IsNa(row[i])
    IN Frame(df.cols, SelectSeq(df.rows, keep))

\* the order of df.sort_values(by=[a, b], ascending=[True, True]) on two rows
KeyLessEq(df, r1, r2, a, b) ==
    LET a1 == At(df, r1, a).n
        a2 == At(df, r2, a).n
    IN \/ a1 < a2
       \/ a1 = a2 /\ At(df, r1, b).n <= At(df, r2, b).n

RECURSIVE InsertStable(_, _, _, _, _)
\* row inserted into the sorted rows after every row that is not greater
InsertStable(df, sorted, row, a, b) ==
    IF sorted = <<>> THEN <<row>>
    ELSE IF KeyLessEq(df, sorted[Len(sorted)], row, a, b)
         THEN Append(sorted, row)
         ELSE Append(InsertStable(df, SubSeq(sorted, 1, Len(sorted) - 1), row, a, b),
                     sorted[Len(sorted)])

RECURSIVE SortRows(_, _, _, _)
SortRows(df, rows, a, b) ==
    IF rows = <<>> THEN <<>>
    ELSE InsertStable(df, SortRows(df, SubSeq(rows, 1, Len(rows) - 1), a, b),
                      rows[Len(rows)], a, b)

\* df.sort_values(by=[a, b], ascending=[True, True]): a lexsort, which is stable
sort_values(df, a, b) == Frame(df.cols, SortRows(df, df.rows, a, b))

\* the rows of df at the indices idx, in index order
RowsAt(df, idx) ==
    [j \in 1..Cardinality(idx) |->
         df.rows[CHOOSE r \in idx : Cardinality({x \in idx : x <= r}) = j]]

\* group.iloc[-1] of every group of df.groupby(col), taken on a frame sorted
\* by col: a row is the last of its group when the next row has another key
GroupLast(df, col) ==
    LET i == ColIndex(df, col)
        n == Len(df.rows)
    IN RowsAt(df, {r \in 1..n : /\ ~IsNa(df.rows[r][i])
                                /\ (r = n \/ df.rows[r + 1][i] # df.rows[r][i])})

\* lines 231-248: the amendment handling
AmendmentHandling(df) ==
    IF /\ HasCol(df, OriginalDisseminationID)
       /\ HasCol(df, ExecutionTimestamp)
       /\ HasCol(df, ActionType)
    THEN LET sorted == sort_values(df, OriginalDisseminationID, ExecutionTimestamp)
             live(row) == At(df, row, ActionType) \notin {Text("CANCEL"), Text("ERROR")}
             final_trades == SelectSeq(GroupLast(sorted, OriginalDisseminationID), live)
         IN [returned |-> final_trades = <<>>, df |-> Frame(df.cols, final_trades)]
    ELSE [returned |-> FALSE, df |-> df]

RECURSIVE ColsToSelect(_, _)
\* [col for col in column_map_to_final.keys() if col in df.columns], from key k on
ColsToSelect(df, k) ==
    IF k > Len(column_map_to_final) THEN <<>>
    ELSE IF HasCol(df, column_map_to_final[k][1])
         THEN <<k>> \o ColsToSelect(df, k + 1)
         ELSE ColsToSelect(df, k + 1)

\* df[cols_to_select].rename(columns=column_map_to_final)
SelectAndRename(df) ==
    LET ks == ColsToSelect(df, 1)
    IN Frame([j \in DOMAIN ks |-> column_map_to_final[ks[j]][2]],
             [r \in DOMAIN df.rows |->
                  [j \in DOMAIN ks |-> At(df, df.rows[r], column_map_to_final[ks[j]][1])]])

\* lines 284-290
NumericColumns(df) ==
    LET d1 == IF HasCol(df, notional_amount)
              THEN ToNumericCol(df, notional_amount) ELSE df
    IN IF HasCol(d1, spread_value)
       THEN ScaleCol(ToNumericCol(d1, spread_value), spread_value)
       ELSE d1

preprocess_dtcc_trades(df) ==
    IF IsEmpty(df) THEN EmptyFrame
    ELSE LET named == RenameTitle(RenameUpper(df))
             timed == IF HasCol(named, ExecutionTimestamp)
                      THEN DropNa(ToDatetimeCol(named, ExecutionTimestamp),
                                  ExecutionTimestamp)
                      ELSE named
             amended == AmendmentHandling(timed)
         IN IF amended.returned THEN EmptyFrame
            ELSE NumericColumns(SelectAndRename(amended.df))

(***************************************************************************)
(* The raw files.  The header of a raw DTCC file is spelled in one of      *)
(* three ways: the public dissemination files ("Original Dissemination     *)
(* Identifier", "Action type", "Spread-Leg 1"), the older spelling with    *)
(* "ID", and the all-capitals spelling of the PPD slices.                  *)
(***************************************************************************)
HeaderStyles == {"identifier", "id", "caps"}

RawColumns(style) ==
    CASE style = "identifier" ->
           << ExecutionTimestamp,
              DisseminationIdentifier,
              OriginalDisseminationIdentifier,
              Name(" ", <<W("action", "T"), W("type", "L")>>),
              Name(" ", <<W("spread-leg", "M"), W("1", "N")>>) >>
      [] style = "id" ->
           << ExecutionTimestamp,
              Name(" ", <<W("dissemination", "T"), W("id", "U")>>),
              OriginalDisseminationID,
              ActionType,
              SpreadLeg1 >>
      [] style = "caps" ->
           << Name("_", <<W("execution", "U"), W("timestamp", "U")>>),
              Name("_", <<W("dissemination", "U"), W("id", "U")>>),
              Name("_", <<W("original", "U"), W("dissemination", "U"), W("id", "U")>>),
              Name("_", <<W("action", "U"), W("type", "U")>>),
              Name("_", <<W("spread-leg", "U"), W("1", "N")>>) >>

\* the positions of the columns of a raw file
RawTs == 1
RawDid == 2
RawOid == 3
RawAction == 4
RawSpread == 5

TxIds == {101, 102}
Actions == {"NEW", "CORRECT", "CANCEL", "ERROR"}
\* the execution time of a report: a timestamp, or text that is none
TimeCells == {TsStr(t) : t \in 1..MaxTime} \cup {Text("bad")}
RawSpreads == {7}

InitResolve ==
    /\ \E style \in HeaderStyles : raw_df = Frame(RawColumns(style), <<>>)
    /\ resolved_df = EmptyFrame
    /\ rerun_df = EmptyFrame
    /\ stage = "ingest"
    /\ dtcc_trades_df = EmptyFrame
    /\ bloomberg_mids_df = <<>>
    /\ classified_df = EmptyFrame
    /\ outcome = "none"
    /\ bloomberg_ticks_df = <<>>
    /\ market_state = <<>>
    /\ NoFetch

\* one more report of the downloaded file (download_and_parse_eod_cumulative_file
\* and download_and_parse_slice read every cell as a string)
AppendReport ==
    /\ stage = "ingest"
    /\ Len(raw_df.rows) < MaxReports
    /\ \E oid \in TxIds, tm \in TimeCells, act \in Actions, sp \in RawSpreads :
           raw_df' = Frame(raw_df.cols,
                           Append(raw_df.rows,
                                  << tm, NumStr(Len(raw_df.rows) + 1), NumStr(oid),
                                     Text(act), NumStr(sp) >>))
    /\ UNCHANGED <<resolved_df, rerun_df, stage, classifyVars, synthVars, fetchVars>>

\* preprocess_dtcc_trades(df) on the raw file
Preprocess ==
    /\ stage = "ingest"
    /\ resolved_df' = preprocess_dtcc_trades(raw_df)
    /\ stage' = "resolved"
    /\ UNCHANGED <<raw_df, rerun_df, classifyVars, synthVars, fetchVars>>

\* preprocess_dtcc_trades on its own output
PreprocessAgain ==
    /\ stage = "resolved"
    /\ rerun_df' = preprocess_dtcc_trades(resolved_df)
    /\ stage' = "rerun"
    /\ UNCHANGED <<raw_df, resolved_df, classifyVars, synthVars, fetchVars>>

NextResolve == AppendReport \/ Preprocess \/ PreprocessAgain

Spec == InitResolve /\ [][NextResolve]_vars

(***************************************************************************)
(* Amendment chains of the raw file, and the rows of a result.             *)
(***************************************************************************)
\* the reports of transaction oid whose execution time parses
Chain(oid) ==
    {r \in DOMAIN raw_df.rows : /\ raw_df.rows[r][RawOid] = NumStr(oid)
                                /\ raw_df.rows[r][RawTs].k = "tsstr"}

\* report r comes before report q in the chain: earlier, or as early and
\* earlier in the file
Before(r, q) ==
    \/ raw_df.rows[r][RawTs].n < raw_df.rows[q][RawTs].n
    \/ raw_df.rows[r][RawTs].n = raw_df.rows[q][RawTs].n /\ r < q

\* the chronologically last report of a chain that is not empty
Terminal(oid) == CHOOSE q \in Chain(oid) : \A r \in Chain(oid) \ {q} : Before(r, q)

Void(r) == raw_df.rows[r][RawAction] \in {Text("CANCEL"), Text("ERROR")}

\* the rows of df that carry transaction id oid
RowsFor(df, oid) ==
    IF HasCol(df, original_dissemination_id)
    THEN {i \in DOMAIN df.rows : At(df, df.rows[i], original_dissemination_id) = NumStr(oid)}
    ELSE {}

\* the value of column col in a row, NaN when the frame has no such column
Field(df, row, col) == IF HasCol(df, col) THEN At(df, row, col) ELSE NaN

\* row i of df carries the fields of report r of the raw file
CarriesReport(df, i, r) ==
    LET row == df.rows[i]
        rep == raw_df.rows[r]
    IN /\ Field(df, row, execution_timestamp_utc) = Ts(rep[RawTs].n)
       /\ Field(df, row, dissemination_id) = rep[RawDid]
       /\ Field(df, row, original_dissemination_id) = rep[RawOid]
       /\ Field(df, row, action_type) = rep[RawAction]
       /\ Field(df, row, spread_value) = Float(rep[RawSpread].n * SPREAD_TO_BPS)

\* the chain of oid has three reports, at three different times
ThreeTimes(oid) ==
    /\ Cardinality(Chain(oid)) = 3
    /\ \A r, q \in Chain(oid) : r # q => raw_df.rows[r][RawTs].n # raw_df.rows[q][RawTs].n

\* the two frames hold the same trades: as many rows, and every column of
\* either frame has the same value in the other
SameTrades(a, b) ==
    /\ Len(a.rows) = Len(b.rows)
    /\ \A i \in DOMAIN a.rows :
           /\ \A c \in DOMAIN a.cols :
                  Field(b, b.rows[i], a.cols[c]) = a.rows[i][c]
           /\ \A c \in DOMAIN b.cols :
                  Field(a, a.rows[i], b.cols[c]) = b.rows[i][c]

(***************************************************************************)
(* Claims about preprocess_dtcc_trades.                                    *)
(***************************************************************************)
\* C1: a chain whose chronologically last report is CANCEL or ERROR has no
\* row in the output of preprocess_dtcc_trades.
C1_CancellationExclusion ==
    stage # "ingest" =>
        \A oid \in TxIds :
            (Chain(oid) # {} /\ Void(Terminal(oid))) => RowsFor(resolved_df, oid) = {}

\* C2: a chain of three reports at times T1 < T2 < T3 whose last report is
\* neither CANCEL nor ERROR has exactly one row in the output, and the row
\* carries the fields of the T3 report.
C2_LastWriterWins ==
    stage # "ingest" =>
        \A oid \in TxIds :
            (ThreeTimes(oid) /\ ~Void(Terminal(oid))) =>
                /\ Cardinality(RowsFor(resolved_df, oid)) = 1
                /\ \A i \in RowsFor(resolved_df, oid) :
                       CarriesReport(resolved_df, i, Terminal(oid))

\* C3: the output of preprocess_dtcc_trades has at most one row for each
\* original transaction id.
C3_AtMostOneRowPerTransaction ==
    stage # "ingest" =>
        \A oid \in TxIds : Cardinality(RowsFor(resolved_df, oid)) <= 1

\* C4: preprocess_dtcc_trades applied to its own output returns the same
\* trades with the same field values.
C4_AmendmentIdempotence ==
    stage = "rerun" => SameTrades(rerun_df, resolved_df)

(***************************************************************************)
(* economic_conversions.                                                   *)
(***************************************************************************)
\* str(value).strip(): the text of a cell
PyStr(c) ==
    CASE c.k \in {"text", "numstr"} -> c
      [] c.k = "float" -> NumStr(c.n)
      [] c.k = "nan" -> Text("nan")
      [] c.k = "None" -> Text("None")
      [] c.k = "NaT" -> Text("NaT")
      [] OTHER -> Text("timestamp")

\* float(text): the numeral's number, NaN for the text "nan", and a
\* ValueError (ok = FALSE) for any other text
PyFloat(t) ==
    IF t.k = "numstr" THEN [ok |-> TRUE, value |-> Float(t.n)]
    ELSE IF t = Text("nan") THEN [ok |-> TRUE, value |-> NaN]
    ELSE [ok |-> FALSE, value |-> NaN]

\* row.get(col, "")
RowGet(df, row, col) == IF HasCol(df, col) THEN At(df, row, col) ELSE Text("")

spread_notation == Snake(<<"spread", "notation">>)
price_notation == Snake(<<"price", "notation">>)

\* text.upper(), on the notations and the texts of missing values
PyUpper(t) ==
    CASE t = Text("bps") -> Text("BPS")
      [] t = Text("decimal") -> Text("DECIMAL")
      [] t = Text("nan") -> Text("NAN")
      [] t = Text("None") -> Text("NONE")
      [] OTHER -> t

\* normalize_dtcc_quote(row): the returned tuple
normalize_dtcc_quote(df, row) ==
    LET price_val_str == PyStr(RowGet(df, row, price_value))
        price_notation_str == PyUpper(PyStr(RowGet(df, row, price_notation)))
        spread_val_str == PyStr(RowGet(df, row, spread_value))
        spread_notation_str == PyUpper(PyStr(RowGet(df, row, spread_notation)))
        spread == PyFloat(spread_val_str)
        price == PyFloat(price_val_str)
    IN IF spread_val_str # Text("") /\ spread.ok
       THEN [quote_basis |-> "spread", quote_value |-> spread.value,
             original_notation |-> spread_notation_str]
       ELSE IF price_val_str # Text("") /\ price.ok
            THEN [quote_basis |-> "price", quote_value |-> price.value,
                  original_notation |-> price_notation_str]
            ELSE [quote_basis |-> "None", quote_value |-> NaN,
                  original_notation |-> PyNone]

\* a faulty variant of convert_spread_to_price: a converter that returns a
\* price, here par less the spread
convert_spread_to_price_par(spread_bps) ==
    IF spread_bps = PyNone THEN PyNone
    ELSE IF IsNa(spread_bps) THEN NaN
    ELSE Float(100 - spread_bps.n)

\* convert_spread_to_price(spread_bps): None for None, NaN for anything else
convert_spread_to_price(spread_bps) ==
    IF spread_bps = PyNone THEN PyNone ELSE NaN

(***************************************************************************)
(* trade_classifier.classify_trades.                                       *)
(***************************************************************************)
LATENCY_FILTER_SECONDS == 30

Abs(x) == IF x < 0 THEN -x ELSE x

RECURSIVE InsertMid(_, _)
InsertMid(sorted, m) ==
    IF sorted = <<>> THEN <<m>>
    ELSE IF sorted[Len(sorted)].timestamp_utc <= m.timestamp_utc
         THEN Append(sorted, m)
         ELSE Append(InsertMid(SubSeq(sorted, 1, Len(sorted) - 1), m),
                     sorted[Len(sorted)])

RECURSIVE SortMids(_)
\* bloomberg_mids_df.sort_values(by="timestamp_utc")
SortMids(mids) ==
    IF mids = <<>> THEN <<>>
    ELSE InsertMid(SortMids(SubSeq(mids, 1, Len(mids) - 1)), mids[Len(mids)])

\* faulty variant of InWindow: the bounds of the window are exclusive
InWindowExclusive(t, trade_ts) ==
    /\ t > trade_ts - LATENCY_FILTER_SECONDS
    /\ t < trade_ts + LATENCY_FILTER_SECONDS

\* the mask of lines 72-75
InWindow(t, trade_ts) ==
    /\ t >= trade_ts - LATENCY_FILTER_SECONDS
    /\ t <= trade_ts + LATENCY_FILTER_SECONDS

\* lines 89-92: idxmin() is the index label of the first row with the least
\* time_diff; .loc[label] is that row when the label is unique and a frame of
\* all the rows with that label when it is not
ClosestMid(relevant, trade_ts) ==
    LET time_diff(i) == Abs(relevant[i].timestamp_utc - trade_ts)
        first == CHOOSE i \in DOMAIN relevant :
                     /\ \A j \in DOMAIN relevant : time_diff(i) <= time_diff(j)
                     /\ \A j \in 1..(i - 1) : time_diff(j) > time_diff(i)
        label == relevant[first].timestamp_utc
    IN [ unique |-> \A j \in DOMAIN relevant :
                        relevant[j].timestamp_utc = label => j = first,
         timestamp_utc |-> label,
         mid_price |-> relevant[first].mid_price ]

\* faulty variant of CompareSpread: the first comparison is not strict
CompareSpreadNotStrict(dtcc_s, bberg_s) ==
    IF dtcc_s <= bberg_s THEN "bid_side"
    ELSE IF dtcc_s > bberg_s THEN "offer_side"
    ELSE "mid_market"

\* lines 107-112
CompareSpread(dtcc_s, bberg_s) ==
    IF dtcc_s < bberg_s THEN "bid_side"
    ELSE IF dtcc_s > bberg_s THEN "offer_side"
    ELSE "mid_market"

\* lines 129-134
ComparePrice(dtcc_p, bberg_mid_price_converted) ==
    IF dtcc_p < bberg_mid_price_converted THEN "bid_side"
    ELSE IF dtcc_p > bberg_mid_price_converted THEN "offer_side"
    ELSE "mid_market"

\* float(value): the number of a float or of a numeral, a ValueError or
\* TypeError (ok = FALSE) for any other text and for None
ToFloat(c) == PyFloat(PyStr(c))

\* faulty variant of EconomicComparison: the exception of float() is not caught
EconomicComparisonUncaught(quote, bberg_mid_spread) ==
    IF quote.quote_basis \in {"spread", "price"} /\ ~ToFloat(bberg_mid_spread).ok
    THEN "raise"
    ELSE IF quote.quote_basis = "spread"
         THEN CompareSpread(quote.quote_value.n, bberg_mid_spread.n)
         ELSE IF quote.quote_basis = "price"
              THEN "unclassifiable_conversion_failed"
              ELSE "unclassifiable_unknown_basis"

\* faulty variant of EconomicComparison: the converted mid is not tested for NaN, and
\* both comparisons of a price with NaN are false
EconomicComparisonNoNaNTest(quote, bberg_mid_spread) ==
    IF quote.quote_basis \in {"spread", "price"} /\ ~ToFloat(bberg_mid_spread).ok
    THEN "unclassifiable_comparison_error"
    ELSE IF quote.quote_basis = "spread"
         THEN CompareSpread(quote.quote_value.n, bberg_mid_spread.n)
         ELSE IF quote.quote_basis = "price"
              THEN "mid_market"
              ELSE "unclassifiable_unknown_basis"

\* lines 99-143: the comparison of a quote with a mid that is not NaN; the
\* try block turns the exception of float() into a label
EconomicComparison(quote, bberg_mid_spread) ==
    IF quote.quote_basis = "spread"
    THEN IF ~ToFloat(quote.quote_value).ok \/ ~ToFloat(bberg_mid_spread).ok
         THEN "unclassifiable_comparison_error"
         ELSE CompareSpread(ToFloat(quote.quote_value).value.n,
                            ToFloat(bberg_mid_spread).value.n)
    ELSE IF quote.quote_basis = "price"
         THEN IF ~ToFloat(bberg_mid_spread).ok
              THEN "unclassifiable_comparison_error"
              ELSE LET bberg_mid_price_converted ==
                           convert_spread_to_price(ToFloat(bberg_mid_spread).value)
                   IN IF IsNa(bberg_mid_price_converted)
                      THEN "unclassifiable_conversion_failed"
                      ELSE IF ~ToFloat(quote.quote_value).ok
                           THEN "unclassifiable_comparison_error"
                           ELSE ComparePrice(ToFloat(quote.quote_value).value.n,
                                             bberg_mid_price_converted.n)
         ELSE "unclassifiable_unknown_basis"

\* faulty variant of ClassifyRow: a NaN mid is reported as a stale mid
ClassifyRowNaNAsStale(df, row, mids) ==
    LET trade_ts == At(df, row, execution_timestamp_utc).n
        quote == normalize_dtcc_quote(df, row)
        in_window(m) == InWindow(m.timestamp_utc, trade_ts)
        relevant_bberg_mids == SelectSeq(mids, in_window)
    IN IF quote.quote_basis = "None" \/ IsNa(quote.quote_value)
       THEN "unclassifiable_bad_dtcc_quote"
       ELSE IF relevant_bberg_mids = <<>>
            THEN "unclassifiable_stale_mid"
            ELSE LET closest_mid_row == ClosestMid(relevant_bberg_mids, trade_ts)
                 IN IF ~closest_mid_row.unique THEN "raise"
                    ELSE IF IsNa(closest_mid_row.mid_price)
                         THEN "unclassifiable_stale_mid"
                         ELSE EconomicComparison(quote, closest_mid_row.mid_price)

\* lines 50-145: the label of one trade, or "raise" when line 94 takes the
\* truth value of a Series (the closest timestamp has several rows) and the
\* ValueError leaves classify_trades
ClassifyRow(df, row, mids) ==
    LET trade_ts == At(df, row, execution_timestamp_utc).n
        quote == normalize_dtcc_quote(df, row)
        in_window(m) == InWindow(m.timestamp_utc, trade_ts)
        relevant_bberg_mids == SelectSeq(mids, in_window)
    IN IF quote.quote_basis = "None" \/ IsNa(quote.quote_value)
       THEN "unclassifiable_bad_dtcc_quote"
       ELSE IF relevant_bberg_mids = <<>>
            THEN "unclassifiable_stale_mid"
            ELSE LET closest_mid_row == ClosestMid(relevant_bberg_mids, trade_ts)
                 IN IF ~closest_mid_row.unique THEN "raise"
                    ELSE IF IsNa(closest_mid_row.mid_price)
                         THEN "unclassifiable_nan_bberg_mid"
                         ELSE EconomicComparison(quote, closest_mid_row.mid_price)

trade_classification == Snake(<<"trade", "classification">>)

\* dtcc_trades_df["trade_classification"] = classifications
WithClassification(df, classifications) ==
    Frame(Append(df.cols, trade_classification),
          [i \in DOMAIN df.rows |-> Append(df.rows[i], Text(classifications[i]))])

\* faulty variant of classify_trades: no early return for an empty market series
classify_trades_without_empty_check(df, mids) ==
    IF IsEmpty(df) THEN [raised |-> FALSE, df |-> df]
    ELSE LET sorted == SortMids(mids)
             classifications ==
                 [i \in DOMAIN df.rows |-> ClassifyRow(df, df.rows[i], sorted)]
         IN IF \E i \in DOMAIN df.rows : classifications[i] = "raise"
            THEN [raised |-> TRUE, df |-> EmptyFrame]
            ELSE [raised |-> FALSE, df |-> WithClassification(df, classifications)]

\* faulty variant of classify_trades: the bad-quote check precedes the empty-market
\* check
classify_trades_bad_quote_first(df, mids) ==
    IF IsEmpty(df) THEN [raised |-> FALSE, df |-> df]
    ELSE LET sorted == SortMids(mids)
             bad(row) == \/ normalize_dtcc_quote(df, row).quote_basis = "None"
                         \/ IsNa(normalize_dtcc_quote(df, row).quote_value)
             classifications ==
                 [i \in DOMAIN df.rows |->
                      IF bad(df.rows[i]) THEN "unclassifiable_bad_dtcc_quote"
                      ELSE IF mids = <<>> THEN "unclassifiable_no_mid"
                      ELSE ClassifyRow(df, df.rows[i], sorted)]
         IN IF \E i \in DOMAIN df.rows : classifications[i] = "raise"
            THEN [raised |-> TRUE, df |-> EmptyFrame]
            ELSE [raised |-> FALSE, df |-> WithClassification(df, classifications)]

\* classify_trades(dtcc_trades_df, bloomberg_mids_df): what it returns, or
\* that it raised
classify_trades(df, mids) ==
    IF IsEmpty(df) THEN [raised |-> FALSE, df |-> df]
    ELSE IF mids = <<>>
         THEN [raised |-> FALSE,
               df |-> WithClassification(df, [i \in DOMAIN df.rows |->
                                                  "unclassifiable_no_mid"])]
         ELSE LET sorted == SortMids(mids)
                  classifications ==
                      [i \in DOMAIN df.rows |-> ClassifyRow(df, df.rows[i], sorted)]
              IN IF \E i \in DOMAIN df.rows : classifications[i] = "raise"
                 THEN [raised |-> TRUE, df |-> EmptyFrame]
                 ELSE [raised |-> FALSE, df |-> WithClassification(df, classifications)]

(***************************************************************************)
(* The classification run: trades and market points are collected in any   *)
(* order, then classify_trades is called once.                             *)
(***************************************************************************)
MaxTrades == 2
MaxMids == 2

TradeCols == <<execution_timestamp_utc, spread_value, price_value>>
TradeTs == 1
TradeSpread == 2
TradePrice == 3

\* the execution time of the trades, and the times of the market points
\* around it
TradeTime == 2 * LATENCY_FILTER_SECONDS
MarketTimes ==
    { TradeTime - (LATENCY_FILTER_SECONDS + 1), TradeTime - LATENCY_FILTER_SECONDS,
      TradeTime - 1, TradeTime + 1 }
MidCells == {Float(70), Float(72), NaN}
\* the (spread_value, price_value) of a trade: a spread alone, a spread and
\* a price, a price beside a NaN spread (what preprocess_dtcc_trades makes of
\* an empty spread cell), a price beside None, and neither
TradeQuotes ==
    { <<Float(70), PyNone>>, <<Float(71), PyNone>>, <<Float(70), NumStr(1)>>,
      <<NaN, NumStr(1)>>, <<PyNone, NumStr(1)>>, <<PyNone, PyNone>> }

InitClassify ==
    /\ raw_df = EmptyFrame
    /\ resolved_df = EmptyFrame
    /\ rerun_df = EmptyFrame
    /\ stage = "classify"
    /\ dtcc_trades_df = Frame(TradeCols, <<>>)
    /\ bloomberg_mids_df = <<>>
    /\ classified_df = EmptyFrame
    /\ outcome = "none"
    /\ bloomberg_ticks_df = <<>>
    /\ market_state = <<>>
    /\ NoFetch

AddTrade ==
    /\ stage = "classify"
    /\ outcome = "none"
    /\ Len(dtcc_trades_df.rows) < MaxTrades
    /\ \E q \in TradeQuotes :
           dtcc_trades_df' = Frame(dtcc_trades_df.cols,
                                   Append(dtcc_trades_df.rows,
                                          <<Ts(TradeTime), q[1], q[2]>>))
    /\ UNCHANGED <<resolveVars, synthVars, stage, bloomberg_mids_df, classified_df, outcome, fetchVars>>

AddMid ==
    /\ stage = "classify"
    /\ outcome = "none"
    /\ Len(bloomberg_mids_df) < MaxMids
    /\ \E t \in MarketTimes, m \in MidCells :
           bloomberg_mids_df' = Append(bloomberg_mids_df,
                                       [timestamp_utc |-> t, mid_price |-> m])
    /\ UNCHANGED <<resolveVars, synthVars, stage, dtcc_trades_df, classified_df, outcome, fetchVars>>

ClassifyTrades ==
    /\ stage = "classify"
    /\ outcome = "none"
    /\ LET result == classify_trades(dtcc_trades_df, bloomberg_mids_df)
       IN /\ outcome' = IF result.raised THEN "raised" ELSE "returned"
          /\ classified_df' = result.df
    /\ UNCHANGED <<resolveVars, synthVars, stage, dtcc_trades_df, bloomberg_mids_df, fetchVars>>

NextClassify == AddTrade \/ AddMid \/ ClassifyTrades

SpecClassify == InitClassify /\ [][NextClassify]_vars

(***************************************************************************)
(* The same run on inputs out of the ordinary: a negative spread, a NaN    *)
(* spread beside no price, a mid that is text and not a number, and trades *)
(* at two times.                                                           *)
(***************************************************************************)
OutlierQuotes ==
    { <<Float(-5), PyNone>>, <<NaN, PyNone>>, <<Float(70), PyNone>>,
      <<PyNone, NumStr(1)>> }
OutlierTradeTimes == {TradeTime, TradeTime + 1}
OutlierMarketTimes == {TradeTime - 1, TradeTime + 1}
OutlierMidCells == {Float(70), Text("n/a"), NaN}

AddOutlierTrade ==
    /\ stage = "classify"
    /\ outcome = "none"
    /\ Len(dtcc_trades_df.rows) < MaxTrades
    /\ \E t \in OutlierTradeTimes, q \in OutlierQuotes :
           dtcc_trades_df' = Frame(dtcc_trades_df.cols,
                                   Append(dtcc_trades_df.rows, <<Ts(t), q[1], q[2]>>))
    /\ UNCHANGED <<resolveVars, synthVars, stage, bloomberg_mids_df, classified_df, outcome, fetchVars>>

AddOutlierMid ==
    /\ stage = "classify"
    /\ outcome = "none"
    /\ Len(bloomberg_mids_df) < MaxMids
    /\ \E t \in OutlierMarketTimes, m \in OutlierMidCells :
           bloomberg_mids_df' = Append(bloomberg_mids_df,
                                       [timestamp_utc |-> t, mid_price |-> m])
    /\ UNCHANGED <<resolveVars, synthVars, stage, dtcc_trades_df, classified_df, outcome, fetchVars>>

NextOutlier == AddOutlierTrade \/ AddOutlierMid \/ ClassifyTrades

SpecOutlier == InitClassify /\ [][NextOutlier]_vars

(***************************************************************************)
(* The market series of plot_classified_trades (run_classification_test,   *)
(* lines 35-49): the ticks are sorted by time and split into the BID and   *)
(* the ASK series, pd.concat(axis=1) joins the two on the union of their   *)
(* times, ffill carries the last known value of each side forward and mid  *)
(* is the mean of the two.  A tick is a record [timestamp, typ, value]; a  *)
(* point of the series a record [timestamp, bid, ask, mid].                *)
(***************************************************************************)
MaxTicks == 3

TickTimes == {1, 2, 3}
TickTypes == {"BID", "ASK", "TRADE"}
\* even values, so that the mean of two of them is a whole number
TickValues == {68, 72}

Max(a, b) == IF a >= b THEN a ELSE b

RECURSIVE InsertTick(_, _)
InsertTick(sorted, k) ==
    IF sorted = <<>> THEN <<k>>
    ELSE IF sorted[Len(sorted)].timestamp <= k.timestamp
         THEN Append(sorted, k)
         ELSE Append(InsertTick(SubSeq(sorted, 1, Len(sorted) - 1), k),
                     sorted[Len(sorted)])

RECURSIVE SortTicks(_)
\* ticks.sort_values(by="timestamp_est"): on so few rows the sort is an
\* insertion sort, which keeps the order of ticks of the same time
SortTicks(ticks) ==
    IF ticks = <<>> THEN <<>>
    ELSE InsertTick(SortTicks(SubSeq(ticks, 1, Len(ticks) - 1)), ticks[Len(ticks)])

\* faulty variant of Side: the TRADE ticks are taken for quotes of the side
SideWithTrades(ticks, typ) ==
    LET is_typ(k) == k.typ \in {typ, "TRADE"}
    IN SelectSeq(ticks, is_typ)

\* ticks[ticks['typ'] == typ]['value']
Side(ticks, typ) ==
    LET is_typ(k) == k.typ = typ
    IN SelectSeq(ticks, is_typ)

\* the index of a series, and whether no label of it is duplicated
IndexOf(side) == [i \in DOMAIN side |-> side[i].timestamp]
IsUnique(side) ==
    \A i, j \in DOMAIN side : side[i].timestamp = side[j].timestamp => i = j
Count(side, t) == Cardinality({i \in DOMAIN side : side[i].timestamp = t})

RECURSIVE UnionIndex(_, _, _)
\* the union of the two indexes over the times given: ascending, a time as
\* often as the side that has it most often
UnionIndex(bids, asks, times) ==
    IF times = {} THEN <<>>
    ELSE LET t == CHOOSE x \in times : \A y \in times : x <= y
         IN [i \in 1..Max(Count(bids, t), Count(asks, t)) |-> t]
                \o UnionIndex(bids, asks, times \ {t})

\* a series can be aligned to the index when it has that very index or no
\* duplicated label; otherwise the reindexing raises
Reindexable(side, index) == IndexOf(side) = index \/ IsUnique(side)

\* the column a series gives on the index: NaN where it has no value
ColumnOf(side, index) ==
    IF IndexOf(side) = index
    THEN [i \in DOMAIN index |-> Float(side[i].value)]
    ELSE [i \in DOMAIN index |->
              IF \E j \in DOMAIN side : side[j].timestamp = index[i]
              THEN Float(side[CHOOSE j \in DOMAIN side :
                                   side[j].timestamp = index[i]].value)
              ELSE NaN]

\* pd.concat([bids, asks], axis=1)
Concat(bids, asks) ==
    LET index == UnionIndex(bids, asks,
                            {bids[i].timestamp : i \in DOMAIN bids}
                                \cup {asks[i].timestamp : i \in DOMAIN asks})
        bid == ColumnOf(bids, index)
        ask == ColumnOf(asks, index)
    IN [ raised |-> ~(Reindexable(bids, index) /\ Reindexable(asks, index)),
         rows |-> [i \in DOMAIN index |->
                       [timestamp |-> index[i], bid |-> bid[i], ask |-> ask[i]]] ]

\* the last value of the cells 1..i that is not NaN, NaN when there is none
LastKnown(cells, i) ==
    IF \E j \in 1..i : ~IsNa(cells[j])
    THEN cells[CHOOSE j \in 1..i : /\ ~IsNa(cells[j])
                                   /\ \A k \in (j + 1)..i : IsNa(cells[k])]
    ELSE NaN

\* faulty variant of ForwardFill: nothing is carried forward
NoForwardFill(rows) == rows

\* .ffill()
ForwardFill(rows) ==
    [i \in DOMAIN rows |->
         [ timestamp |-> rows[i].timestamp,
           bid |-> LastKnown([j \in DOMAIN rows |-> rows[j].bid], i),
           ask |-> LastKnown([j \in DOMAIN rows |-> rows[j].ask], i) ]]

\* (bid + ask) / 2.0: NaN when either is NaN
Mid(bid, ask) ==
    IF IsNa(bid) \/ IsNa(ask) THEN NaN ELSE Float((bid.n + ask.n) \div 2)

\* lines 35-49: the series built from the ticks, or that the join raised
MarketState(ticks) ==
    LET sorted == SortTicks(ticks)
        joined == Concat(Side(sorted, "BID"), Side(sorted, "ASK"))
        filled == ForwardFill(joined.rows)
    IN [ raised |-> joined.raised,
         rows |-> IF joined.raised THEN <<>>
                  ELSE [i \in DOMAIN filled |->
                            [ timestamp |-> filled[i].timestamp,
                              bid |-> filled[i].bid,
                              ask |-> filled[i].ask,
                              mid |-> Mid(filled[i].bid, filled[i].ask) ]] ]

InitSynth ==
    /\ raw_df = EmptyFrame
    /\ resolved_df = EmptyFrame
    /\ rerun_df = EmptyFrame
    /\ stage = "synthesize"
    /\ dtcc_trades_df = EmptyFrame
    /\ bloomberg_mids_df = <<>>
    /\ classified_df = EmptyFrame
    /\ outcome = "none"
    /\ bloomberg_ticks_df = <<>>
    /\ market_state = <<>>
    /\ NoFetch

\* one more tick of get_tick_data
AddTick ==
    /\ stage = "synthesize"
    /\ outcome = "none"
    /\ Len(bloomberg_ticks_df) < MaxTicks
    /\ \E t \in TickTimes, typ \in TickTypes, v \in TickValues :
           bloomberg_ticks_df' = Append(bloomberg_ticks_df,
                                        [timestamp |-> t, typ |-> typ, value |-> v])
    /\ UNCHANGED <<resolveVars, classifyVars, stage, market_state, fetchVars>>

\* plot_classified_trades(classified_df, bloomberg_ticks_df, ...); run_test
\* calls it only with ticks (lines 160-162)
PlotClassifiedTrades ==
    /\ stage = "synthesize"
    /\ outcome = "none"
    /\ bloomberg_ticks_df # <<>>
    /\ LET result == MarketState(bloomberg_ticks_df)
       IN /\ outcome' = IF result.raised THEN "raised" ELSE "returned"
          /\ market_state' = result.rows
    /\ UNCHANGED <<resolveVars, stage, dtcc_trades_df, bloomberg_mids_df,
                   classified_df, bloomberg_ticks_df, fetchVars>>

NextSynth == AddTick \/ PlotClassifiedTrades

SpecSynth == InitSynth /\ [][NextSynth]_vars

(***************************************************************************)
(* Claims about classify_trades.  They are stated on the trades and the    *)
(* market points given to the call and on the labels it returned.          *)
(***************************************************************************)
Trades == DOMAIN dtcc_trades_df.rows
Mids == DOMAIN bloomberg_mids_df

\* classify_trades returned a label for every trade
Labelled ==
    /\ outcome = "returned"
    /\ HasCol(classified_df, trade_classification)
    /\ Len(classified_df.rows) = Len(dtcc_trades_df.rows)

LabelOf(i) == At(classified_df, classified_df.rows[i], trade_classification).s
TimeOf(i) == dtcc_trades_df.rows[i][TradeTs].n
QuoteOf(i) == normalize_dtcc_quote(dtcc_trades_df, dtcc_trades_df.rows[i])
GoodQuote(i) == QuoteOf(i).quote_basis # "None" /\ ~IsNa(QuoteOf(i).quote_value)
SpreadQuote(i) == GoodQuote(i) /\ QuoteOf(i).quote_basis = "spread"

UnclassifiableTags ==
    { "unclassifiable_bad_dtcc_quote", "unclassifiable_no_mid",
      "unclassifiable_stale_mid", "unclassifiable_conversion_failed",
      "unclassifiable_negative_spread", "unclassifiable_comparison_error",
      "unclassifiable_nan_bberg_mid", "unclassifiable_unknown_basis",
      "unclassifiable_error" }

\* the market points no more than the tolerance away from trade i, and those
\* of them that are nearest to it (the earlier ones when two times are as near)
Near(i) ==
    {j \in Mids : Abs(bloomberg_mids_df[j].timestamp_utc - TimeOf(i))
                      <= LATENCY_FILTER_SECONDS}
Gap(i, j) == Abs(bloomberg_mids_df[j].timestamp_utc - TimeOf(i))
Nearest(i) ==
    {j \in Near(i) :
         \A k \in Near(i) :
             \/ Gap(i, j) < Gap(i, k)
             \/ /\ Gap(i, j) = Gap(i, k)
                /\ bloomberg_mids_df[j].timestamp_utc <= bloomberg_mids_df[k].timestamp_utc}

\* trade i has a reference point: one market point is the nearest
HasReference(i) == Cardinality(Nearest(i)) = 1
Reference(i) == bloomberg_mids_df[CHOOSE j \in Nearest(i) : TRUE]

\* the as-of points of trade i: the latest market points at or before it
AsOf(i) ==
    {j \in Mids :
         /\ bloomberg_mids_df[j].timestamp_utc <= TimeOf(i)
         /\ \A k \in Mids :
                bloomberg_mids_df[k].timestamp_utc <= TimeOf(i) =>
                    bloomberg_mids_df[k].timestamp_utc <= bloomberg_mids_df[j].timestamp_utc}

\* trade i has a usable as-of mid within the tolerance
UsableAsOf(i) ==
    /\ Cardinality(AsOf(i)) = 1
    /\ \A j \in AsOf(i) :
           /\ TimeOf(i) - bloomberg_mids_df[j].timestamp_utc <= LATENCY_FILTER_SECONDS
           /\ ~IsNa(bloomberg_mids_df[j].mid_price)
AsOfMid(i) == bloomberg_mids_df[CHOOSE j \in AsOf(i) : TRUE].mid_price.n

\* C5: classify_trades never raises, and every trade gets one label of the
\* closed set {buy, sell, mid_market} plus the unclassifiable_* tags.
C5_ClassificationTotality ==
    /\ outcome # "raised"
    /\ (outcome = "returned" /\ Trades # {}) =>
           /\ Labelled
           /\ \A i \in Trades :
                  LabelOf(i) \in {"buy", "sell", "mid_market"} \cup UnclassifiableTags

\* C6: a spread-basis trade with a usable reference mid within tolerance is
\* labelled buy when its spread is greater than the mid and sell when it is
\* less.
C6_BuyAboveSellBelow ==
    Labelled =>
        \A i \in Trades :
            (SpreadQuote(i) /\ UsableAsOf(i)) =>
                /\ QuoteOf(i).quote_value.n > AsOfMid(i) => LabelOf(i) = "buy"
                /\ QuoteOf(i).quote_value.n < AsOfMid(i) => LabelOf(i) = "sell"

\* C7: a trade is labelled mid_market exactly when it has a reference point
\* and its spread equals the mid of that point.
C7_MidMarketIffEqual ==
    Labelled =>
        \A i \in Trades :
            LabelOf(i) = "mid_market" <=>
                /\ SpreadQuote(i)
                /\ HasReference(i)
                /\ Reference(i).mid_price = QuoteOf(i).quote_value

C7_Witness ==
    /\ Labelled
    /\ \E i \in Trades :
           /\ LabelOf(i) = "mid_market"
           /\ HasReference(i)
           /\ Reference(i).mid_price = QuoteOf(i).quote_value

\* C8: with tolerance L, a trade whose reference point is exactly L seconds
\* old is classified against it (it is not stale, and it is mid_market exactly
\* when its spread equals that mid); a trade all of whose market points are
\* L+1 seconds old or older is unclassifiable_stale_mid.
C8_LatencyBoundary ==
    Labelled =>
        \A i \in Trades :
            GoodQuote(i) =>
                /\ ( /\ HasReference(i)
                     /\ Reference(i).timestamp_utc = TimeOf(i) - LATENCY_FILTER_SECONDS
                     /\ ~IsNa(Reference(i).mid_price) ) =>
                       /\ LabelOf(i) \notin UnclassifiableTags \ {"unclassifiable_conversion_failed"}
                       /\ SpreadQuote(i) =>
                              /\ LabelOf(i) \notin UnclassifiableTags
                              /\ LabelOf(i) = "mid_market" <=>
                                     Reference(i).mid_price = QuoteOf(i).quote_value
                /\ ( /\ Mids # {}
                     /\ \A j \in Mids :
                            TimeOf(i) - bloomberg_mids_df[j].timestamp_utc
                                >= LATENCY_FILTER_SECONDS + 1 ) =>
                       LabelOf(i) = "unclassifiable_stale_mid"

C8_Witness ==
    /\ Labelled
    /\ \E i \in Trades :
           /\ SpreadQuote(i)
           /\ HasReference(i)
           /\ Reference(i).timestamp_utc = TimeOf(i) - LATENCY_FILTER_SECONDS
           /\ LabelOf(i) = "mid_market"

\* C9: the reference of a trade is the latest market point at or before the
\* trade; a later point is never used, and a trade that has only later market
\* points is unclassifiable_stale_mid.
C9_AsOfLookup ==
    Labelled =>
        \A i \in Trades :
            GoodQuote(i) =>
                /\ (Mids # {} /\ AsOf(i) = {}) => LabelOf(i) = "unclassifiable_stale_mid"
                /\ (SpreadQuote(i) /\ UsableAsOf(i)) =>
                       (LabelOf(i) = "mid_market" <=>
                            QuoteOf(i).quote_value.n = AsOfMid(i))

\* C10: with an empty market series classify_trades does not raise and
\* labels every trade of a batch that is not empty unclassifiable_no_mid.
C10_EmptyMarketNoMid ==
    (outcome # "none" /\ Mids = {} /\ Trades # {}) =>
        /\ Labelled
        /\ \A i \in Trades : LabelOf(i) = "unclassifiable_no_mid"

C10_Witness ==
    /\ Labelled
    /\ Mids = {}
    /\ \E i \in Trades : ~GoodQuote(i) /\ LabelOf(i) = "unclassifiable_no_mid"
    /\ \E i \in Trades : GoodQuote(i) /\ LabelOf(i) = "unclassifiable_no_mid"

(***************************************************************************)
(* Claims about normalize_dtcc_quote.                                      *)
(***************************************************************************)
SpreadCell(i) == dtcc_trades_df.rows[i][TradeSpread]
PriceCell(i) == dtcc_trades_df.rows[i][TradePrice]

\* the cell holds a number: it is not empty and it parses to a number
Usable(c) == c.k \in {"numstr", "float"}

\* C11: normalize_dtcc_quote returns basis spread exactly when spread_value
\* is a usable number, and basis price exactly when spread_value is not and
\* price_value is: an absent, empty or unusable spread_value falls through
\* to price_value.
C11_NormalizerPrecedence ==
    \A i \in Trades :
        /\ QuoteOf(i).quote_basis = "spread" <=> Usable(SpreadCell(i))
        /\ QuoteOf(i).quote_basis = "price" <=>
               (~Usable(SpreadCell(i)) /\ Usable(PriceCell(i)))

\* C12: when neither spread_value nor price_value holds a usable number,
\* normalize_dtcc_quote returns (None, NaN, None) and classify_trades labels
\* the trade unclassifiable_bad_dtcc_quote.
C12_NeitherUsableBadQuote ==
    \A i \in Trades :
        (~Usable(SpreadCell(i)) /\ ~Usable(PriceCell(i))) =>
            /\ QuoteOf(i) = [quote_basis |-> "None", quote_value |-> NaN,
                             original_notation |-> PyNone]
            /\ Labelled => LabelOf(i) = "unclassifiable_bad_dtcc_quote"

(***************************************************************************)
(* Claims about the batch that classify_trades returns.                    *)
(***************************************************************************)
\* row i of the output is trade i of the input with its label
CarriesTrade(i) ==
    /\ \A c \in DOMAIN dtcc_trades_df.cols :
           Field(classified_df, classified_df.rows[i], dtcc_trades_df.cols[c])
               = dtcc_trades_df.rows[i][c]
    /\ HasCol(classified_df, trade_classification)
    /\ At(classified_df, classified_df.rows[i], trade_classification).k = "text"
    /\ LabelOf(i) # ""

\* C13: classify_trades returns, for every batch, one row per input trade
\* in the input order, each with a label that is not null.
C13_OneLabelledRowPerTrade ==
    /\ outcome # "raised"
    /\ outcome = "returned" =>
           /\ Len(classified_df.rows) = Len(dtcc_trades_df.rows)
           /\ \A i \in Trades : CarriesTrade(i)

(***************************************************************************)
(* Claims about the steps of classify_trades.                              *)
(***************************************************************************)
Sides == {"bid_side", "offer_side", "mid_market"}

\* the nearest timestamp of trade j has several rows: line 94 raises
DuplicatedNearest(j) == GoodQuote(j) /\ Cardinality(Nearest(j)) > 1

\* trade i has a reference point whose mid is a number
NumericReference(i) ==
    /\ HasReference(i)
    /\ ~IsNa(Reference(i).mid_price)
    /\ ToFloat(Reference(i).mid_price).ok

\* the comparison of trade i raises: its reference point has a mid that is
\* no missing value and that float() refuses
ComparisonRaises(i) ==
    /\ GoodQuote(i)
    /\ HasReference(i)
    /\ ~IsNa(Reference(i).mid_price)
    /\ ~ToFloat(Reference(i).mid_price).ok

\* C15: an exception raised while a trade is compared with its reference
\* does not leave classify_trades (a run that raises has another cause, a
\* duplicated nearest timestamp); the trade is labelled
\* unclassifiable_comparison_error and the other trades of the batch get
\* their own labels.
C15_ComparisonErrorCaught ==
    \A i \in Trades :
        ComparisonRaises(i) =>
            /\ outcome = "raised" => \E j \in Trades : DuplicatedNearest(j)
            /\ outcome = "returned" =>
                   /\ Labelled
                   /\ LabelOf(i) = "unclassifiable_comparison_error"
                   /\ \A j \in Trades \ {i} :
                          /\ ~GoodQuote(j) =>
                                 LabelOf(j) = "unclassifiable_bad_dtcc_quote"
                          /\ (SpreadQuote(j) /\ NumericReference(j)) =>
                                 LabelOf(j) \in Sides

C15_Witness ==
    /\ Labelled
    /\ \E i, j \in Trades :
           /\ ComparisonRaises(i)
           /\ LabelOf(i) = "unclassifiable_comparison_error"
           /\ SpreadQuote(j) /\ NumericReference(j)
           /\ LabelOf(j) \in Sides

\* C16: the bad-quote check precedes the empty-market check: a trade whose
\* normalized quote has basis None or value NaN is labelled
\* unclassifiable_bad_dtcc_quote, also when the market series is empty.
C16_BadQuoteBeforeEmptyMarket ==
    Labelled =>
        \A i \in Trades : ~GoodQuote(i) => LabelOf(i) = "unclassifiable_bad_dtcc_quote"

\* C16 as amended: the empty-market check comes first.  With an empty market
\* series every trade is labelled unclassifiable_no_mid, a trade with a bad
\* quote included; with a series that is not empty a trade with a bad quote is
\* labelled unclassifiable_bad_dtcc_quote; and every later outcome, the
\* ValueError of line 94 included, is reached only by a trade that passed all
\* the earlier checks.
C16_EmptyMarketBeforeBadQuote ==
    /\ outcome = "raised" =>
           /\ Mids # {}
           /\ \E j \in Trades : GoodQuote(j) /\ Near(j) # {} /\ DuplicatedNearest(j)
    /\ (outcome = "returned" /\ Trades # {}) =>
           /\ Labelled
           /\ \A i \in Trades :
                  LET label == LabelOf(i)
                      good == GoodQuote(i)
                      located == Mids # {} /\ good /\ HasReference(i)
                      nan_mid == IsNa(Reference(i).mid_price)
                  IN /\ label = "unclassifiable_no_mid" <=> Mids = {}
                     /\ label = "unclassifiable_bad_dtcc_quote" <=> (Mids # {} /\ ~good)
                     /\ label = "unclassifiable_stale_mid" <=>
                            (Mids # {} /\ good /\ Near(i) = {})
                     /\ label = "unclassifiable_nan_bberg_mid" <=> (located /\ nan_mid)
                     /\ label \in Sides \cup { "unclassifiable_conversion_failed",
                                                "unclassifiable_comparison_error" } <=>
                            (located /\ ~nan_mid)

C16_Witness ==
    /\ Labelled
    /\ Mids = {}
    /\ \E i \in Trades : /\ QuoteOf(i).quote_basis = "None"
                          /\ LabelOf(i) = "unclassifiable_no_mid"

PriceQuote(i) == GoodQuote(i) /\ QuoteOf(i).quote_basis = "price"

\* C17: for a price-basis trade with a usable reference point the mid is
\* converted with convert_spread_to_price, and when the conversion returns
\* NaN or None the trade is labelled unclassifiable_conversion_failed, never
\* a side.
C17_ConversionFailed ==
    Labelled =>
        \A i \in Trades :
            ( /\ PriceQuote(i)
              /\ NumericReference(i)
              /\ IsNa(convert_spread_to_price(ToFloat(Reference(i).mid_price).value)) ) =>
                LabelOf(i) = "unclassifiable_conversion_failed"

C17_Witness ==
    /\ Labelled
    /\ \E i \in Trades :
           /\ PriceQuote(i)
           /\ NumericReference(i)
           /\ IsNa(convert_spread_to_price(ToFloat(Reference(i).mid_price).value))
           /\ LabelOf(i) = "unclassifiable_conversion_failed"

\* C18: a trade whose spread is negative is labelled
\* unclassifiable_negative_spread, never a side, whatever the mid of its
\* reference point is.
C18_NegativeSpreadGuard ==
    Labelled =>
        \A i \in Trades :
            ( /\ SpreadQuote(i)
              /\ QuoteOf(i).quote_value.n < 0
              /\ NumericReference(i) ) =>
                LabelOf(i) = "unclassifiable_negative_spread"

\* trade i has a reference point whose mid is NaN
NaNReference(i) == GoodQuote(i) /\ HasReference(i) /\ IsNa(Reference(i).mid_price)

\* C19: a trade whose reference point has a NaN mid is labelled
\* unclassifiable_stale_mid.
C19_NaNMidIsStale ==
    Labelled =>
        \A i \in Trades : NaNReference(i) => LabelOf(i) = "unclassifiable_stale_mid"

\* C19 as amended: a trade whose reference point (the nearest point within
\* the tolerance) has a NaN mid is labelled unclassifiable_nan_bberg_mid, and
\* no other trade is; a run with such a trade raises only when some trade has
\* a duplicated nearest timestamp.
C19_NaNMidHasItsOwnTag ==
    outcome # "none" =>
        \A i \in Trades :
            LET nan_reference == NaNReference(i)
            IN /\ (nan_reference /\ outcome = "raised") =>
                      \E j \in Trades : DuplicatedNearest(j)
               /\ (nan_reference /\ outcome = "returned") =>
                      Labelled /\ LabelOf(i) = "unclassifiable_nan_bberg_mid"
               /\ Labelled =>
                      (LabelOf(i) = "unclassifiable_nan_bberg_mid" => nan_reference)

C19_Witness ==
    /\ Labelled
    /\ \E i \in Trades : NaNReference(i) /\ LabelOf(i) = "unclassifiable_nan_bberg_mid"

(***************************************************************************)
(* Claims about the market series.  They are stated on the ticks given to  *)
(* plot_classified_trades and on the series it built.                      *)
(***************************************************************************)
Ticks == DOMAIN bloomberg_ticks_df
Points == DOMAIN market_state

\* the series was built
Synthesized == stage = "synthesize" /\ outcome = "returned"

\* a tick of the side has been observed at or before time t
Seen(typ, t) ==
    \E k \in Ticks : /\ bloomberg_ticks_df[k].typ = typ
                     /\ bloomberg_ticks_df[k].timestamp <= t
\* a tick of the side at time t
TickAt(typ, t) ==
    \E k \in Ticks : /\ bloomberg_ticks_df[k].typ = typ
                     /\ bloomberg_ticks_df[k].timestamp = t

\* t is at or after the first time at which both a bid and an ask have
\* been observed
Covered(t) == Seen("BID", t) /\ Seen("ASK", t)

\* C14: for every time t at or after the first time at which both a bid and
\* an ask have been observed, the series has a point with a defined mid at or
\* before t, and no point of the series at such a time has an undefined mid.
C14_MidCoverage ==
    Synthesized =>
        \A t \in TickTimes :
            Covered(t) =>
                /\ \E p \in Points : /\ market_state[p].timestamp <= t
                                     /\ ~IsNa(market_state[p].mid)
                /\ \A p \in Points :
                       market_state[p].timestamp = t => ~IsNa(market_state[p].mid)

\* a point after the start of the coverage at whose time only one side
\* ticked, with the other side carried forward
C14_Witness ==
    /\ Synthesized
    /\ \E p \in Points :
           /\ Covered(market_state[p].timestamp)
           /\ TickAt("BID", market_state[p].timestamp)
           /\ ~TickAt("ASK", market_state[p].timestamp)
           /\ ~IsNa(market_state[p].mid)
           /\ \E q \in Points : /\ market_state[q].timestamp < market_state[p].timestamp
                                /\ IsNa(market_state[q].mid)

\* C20: the series has a point only at times by which both a bid and an ask
\* have been observed, so no point has an undefined bid, ask or mid.
C20_NoLeadingUndefinedPoint ==
    Synthesized =>
        \A p \in Points :
            /\ Covered(market_state[p].timestamp)
            /\ ~IsNa(market_state[p].bid)
            /\ ~IsNa(market_state[p].ask)
            /\ ~IsNa(market_state[p].mid)

\* the ticks of a side that are the latest at or before time t: no tick of
\* the side lies between them and t
Latest(typ, t) ==
    {k \in Ticks :
         /\ bloomberg_ticks_df[k].typ = typ
         /\ bloomberg_ticks_df[k].timestamp <= t
         /\ \A l \in Ticks :
                (bloomberg_ticks_df[l].typ = typ /\ bloomberg_ticks_df[l].timestamp <= t)
                    => bloomberg_ticks_df[l].timestamp <= bloomberg_ticks_df[k].timestamp}

\* the cell is the value of a latest tick of the side at or before t, and
\* undefined when the side has no tick by then
CarriesLatest(cell, typ, t) ==
    IF Latest(typ, t) = {} THEN cell = NaN
    ELSE \E k \in Latest(typ, t) : cell = Float(bloomberg_ticks_df[k].value)

\* C21: whatever the order of the ticks, the series is in ascending order of
\* time, has its points at the times of the BID and ASK ticks only, and at
\* every point bid is the value of the latest BID tick at or before the
\* point, ask that of the latest ASK tick, and mid their mean; a TRADE tick
\* changes none of them.
C21_SortedForwardFilledSeries ==
    Synthesized =>
        /\ \A p, q \in Points :
               p < q => market_state[p].timestamp <= market_state[q].timestamp
        /\ \A t \in TickTimes :
               (TickAt("BID", t) \/ TickAt("ASK", t))
                   <=> \E p \in Points : market_state[p].timestamp = t
        /\ \A p \in Points :
               LET point == market_state[p]
               IN /\ CarriesLatest(point.bid, "BID", point.timestamp)
                  /\ CarriesLatest(point.ask, "ASK", point.timestamp)
                  /\ (~IsNa(point.bid) /\ ~IsNa(point.ask)) =>
                         /\ ~IsNa(point.mid)
                         /\ 2 * point.mid.n = point.bid.n + point.ask.n
                  /\ (IsNa(point.bid) \/ IsNa(point.ask)) => IsNa(point.mid)

\* ticks given out of order, a TRADE tick among them with a value of its
\* own, and a point whose bid is carried forward from an earlier time
C21_Witness ==
    /\ Synthesized
    /\ \E k, l \in Ticks :
           k < l /\ bloomberg_ticks_df[k].timestamp > bloomberg_ticks_df[l].timestamp
    /\ \E k \in Ticks :
           /\ bloomberg_ticks_df[k].typ = "TRADE"
           /\ \A l \in Ticks \ {k} :
                  bloomberg_ticks_df[l].value # bloomberg_ticks_df[k].value
    /\ \E p \in Points :
           /\ ~TickAt("BID", market_state[p].timestamp)
           /\ ~IsNa(market_state[p].bid)
           /\ ~IsNa(market_state[p].mid)

(***************************************************************************)
(* The ingest of a file some of whose execution times do not parse: the    *)
(* reports are read in any order, then preprocess_dtcc_trades is called.   *)
(***************************************************************************)
\* two times, so that two reports of a chain can have the same, a text that
\* is no timestamp and the NaN that read_csv makes of an empty cell
ShortTimeCells == {TsStr(1), TsStr(2), Text("bad"), NaN}
ShortActions == {"NEW", "CANCEL"}

ReadReport ==
    /\ stage = "ingest"
    /\ Len(raw_df.rows) < MaxReports
    /\ \E oid \in TxIds, tm \in ShortTimeCells, act \in ShortActions, sp \in RawSpreads :
           raw_df' = Frame(raw_df.cols,
                           Append(raw_df.rows,
                                  << tm, NumStr(Len(raw_df.rows) + 1), NumStr(oid),
                                     Text(act), NumStr(sp) >>))
    /\ UNCHANGED <<resolved_df, rerun_df, stage, classifyVars, synthVars, fetchVars>>

NextIngest == ReadReport \/ Preprocess

SpecIngest == InitResolve /\ [][NextIngest]_vars

(***************************************************************************)
(* Claims about the reports that preprocess_dtcc_trades drops.             *)
(***************************************************************************)
Reports == DOMAIN raw_df.rows
Parses(r) == raw_df.rows[r][RawTs].k = "tsstr"

\* the raw file without the reports whose execution time does not parse
ParseableOnly(df) ==
    LET parses(row) == row[RawTs].k = "tsstr"
    IN Frame(df.cols, SelectSeq(df.rows, parses))

\* C22: a report whose execution time does not parse is dropped before the
\* grouping: no row of the output carries it or has a missing execution
\* time, and the output is what preprocess_dtcc_trades returns for the file
\* without those reports.
C22_UnparseableTimeDropped ==
    stage # "ingest" =>
        /\ \A i \in DOMAIN resolved_df.rows :
               /\ Field(resolved_df, resolved_df.rows[i], execution_timestamp_utc).k = "ts"
               /\ \A r \in Reports :
                      ~Parses(r) =>
                          Field(resolved_df, resolved_df.rows[i], dissemination_id)
                              # raw_df.rows[r][RawDid]
        /\ resolved_df.rows = preprocess_dtcc_trades(ParseableOnly(raw_df)).rows
        /\ Len(resolved_df.rows) <= Cardinality({r \in Reports : Parses(r)})

\* a report whose time does not parse lies between two reports of its
\* chain whose times do, and the output has rows
C22_Witness ==
    /\ stage = "resolved"
    /\ \E q1, r, q2 \in Reports :
           /\ q1 < r /\ r < q2
           /\ ~Parses(r) /\ Parses(q1) /\ Parses(q2)
           /\ raw_df.rows[q1][RawOid] = raw_df.rows[r][RawOid]
           /\ raw_df.rows[q2][RawOid] = raw_df.rows[r][RawOid]
    /\ resolved_df.rows # <<>>
    /\ HasCol(resolved_df, dissemination_id)

\* the reports of the chain of oid that have its latest execution time, when
\* there are several of them
TiedLast(oid) ==
    {r \in Chain(oid) :
         \A q \in Chain(oid) : raw_df.rows[q][RawTs].n <= raw_df.rows[r][RawTs].n}

\* C23: when several reports of a chain have the same execution time they
\* are ordered by their position in the file, so the chain has one row in the
\* output, and it carries the report that arrived last among those with the
\* latest execution time.
C23_TieBreakByArrival ==
    (stage # "ingest" /\ HasCol(resolved_df, original_dissemination_id)) =>
        \A oid \in TxIds :
            (Cardinality(TiedLast(oid)) > 1 /\ ~Void(Terminal(oid))) =>
                /\ Cardinality(RowsFor(resolved_df, oid)) = 1
                /\ \A i \in RowsFor(resolved_df, oid) :
                       CarriesReport(resolved_df, i, Terminal(oid))

(***************************************************************************)
(* Claims about the trades of one batch.                                   *)
(***************************************************************************)
\* classify_trades called on trade i alone, with the same market series
Alone(i) ==
    classify_trades(Frame(dtcc_trades_df.cols, <<dtcc_trades_df.rows[i]>>),
                    bloomberg_mids_df)
LabelAlone(i) == At(Alone(i).df, Alone(i).df.rows[1], trade_classification).s

\* C24: the label of a trade depends on its own fields, the market series
\* and the tolerance only: whatever other trades the batch holds, and in
\* whatever order, the trade gets the label it gets when it is classified
\* alone against the same market series.
C24_TradeIndependence ==
    outcome # "none" =>
        \A i \in Trades :
            ~Alone(i).raised => (Labelled /\ LabelOf(i) = LabelAlone(i))

(***************************************************************************)
(* The path of a quote from the raw report to the comparison: the reports  *)
(* of a file are preprocessed and the result is given to classify_trades   *)
(* with a market series (run_classification_test.run_test, steps 2 and 4). *)
(***************************************************************************)
\* the spreads of the raw reports, and the mids of the market: the raw
\* spread 7 itself, the spread scaled once and the spread scaled twice
QuotedSpreads == {6, 7}
QuotedMids == {7, 7 * SPREAD_TO_BPS, 7 * SPREAD_TO_BPS * SPREAD_TO_BPS}
QuotedMidTimes == {1, 2}

\* one more report, the first of its transaction, executed at second 1
ReadQuote ==
    /\ stage = "ingest"
    /\ Len(raw_df.rows) < MaxReports
    /\ \E sp \in QuotedSpreads :
           raw_df' = Frame(raw_df.cols,
                           Append(raw_df.rows,
                                  << TsStr(1), NumStr(Len(raw_df.rows) + 1),
                                     NumStr(Len(raw_df.rows) + 1), Text("NEW"),
                                     NumStr(sp) >>))
    /\ UNCHANGED <<resolved_df, rerun_df, stage, classifyVars, synthVars, fetchVars>>

\* one more point of the market series
QuoteMid ==
    /\ stage = "ingest"
    /\ Len(bloomberg_mids_df) < MaxMids
    /\ \E t \in QuotedMidTimes, m \in QuotedMids :
           bloomberg_mids_df' = Append(bloomberg_mids_df,
                                       [timestamp_utc |-> t, mid_price |-> Float(m)])
    /\ UNCHANGED <<resolveVars, synthVars, stage, dtcc_trades_df, classified_df, outcome, fetchVars>>

\* classify_trades(preprocessed_dtcc_df, ...) on what preprocess_dtcc_trades
\* returned; run_test stops before it when that is empty (lines 134-136)
ClassifyResolved ==
    /\ stage = "resolved"
    /\ outcome = "none"
    /\ ~IsEmpty(resolved_df)
    /\ LET result == classify_trades(resolved_df, bloomberg_mids_df)
       IN /\ outcome' = IF result.raised THEN "raised" ELSE "returned"
          /\ classified_df' = result.df
    /\ dtcc_trades_df' = resolved_df
    /\ UNCHANGED <<resolveVars, synthVars, stage, bloomberg_mids_df, fetchVars>>

NextPipeline == ReadQuote \/ QuoteMid \/ Preprocess \/ ClassifyResolved

SpecPipeline == InitResolve /\ [][NextPipeline]_vars

(***************************************************************************)
(* Claims about the scale of the spread.                                   *)
(***************************************************************************)
\* the spread of the raw report that trade i was made of (the reports of
\* ReadQuote all parse, so trade i is report i)
RawSpreadOf(i) == raw_df.rows[i][RawSpread].n

DTCC_INITIAL_LOOKBACK_DAYS == 1
FETCH_EOD_CUMULATIVE_FOR_LOOKBACK == TRUE
\* 20 in config.py; the loops of the model make fewer attempts
DTCC_MAX_SEQ_ATTEMPTS_PER_CYCLE == 2
\* the polling cycles of a run, and the last day the clock reaches
MaxCycles == 2
LastDay == 3

\* the frames of the other functions, which the fetcher does not touch
IdleFrames ==
    /\ raw_df = EmptyFrame
    /\ resolved_df = EmptyFrame
    /\ rerun_df = EmptyFrame
    /\ stage = "fetch"
    /\ dtcc_trades_df = EmptyFrame
    /\ bloomberg_mids_df = <<>>
    /\ classified_df = EmptyFrame
    /\ outcome = "none"
    /\ bloomberg_ticks_df = <<>>
    /\ market_state = <<>>

NoFrames == IdleFrames /\ NoFilter

\* dict.get(key, 0) and dict[key] = value
Get(dict, key) == IF key \in DOMAIN dict THEN dict[key] ELSE 0
Put(dict, key, value) ==
    [k \in DOMAIN dict \cup {key} |-> IF k = key THEN value ELSE dict[k]]

\* faulty variant of NextSeq: every cycle probes from sequence 1
NextSeqFromOne(dict, key) == 1

\* line 369: last_processed_sequences.get(seq_key, 0) + 1
NextSeq(dict, key) == Get(dict, key) + 1

Request(date, seq, found, polling, last) ==
    [date |-> date, seq |-> seq, found |-> found, polling |-> polling, last |-> last]

InitPoll ==
    /\ NoFrames
    /\ pc = "lookback"
    /\ today = DTCC_INITIAL_LOOKBACK_DAYS
    /\ day_offset = DTCC_INITIAL_LOOKBACK_DAYS
    /\ scan_date = 0
    /\ current_seq = 0
    /\ attempt = 0
    /\ last_processed_sequences = EmptyDict
    /\ cycles = 0
    /\ requests = <<>>
    /\ all_dataframes = <<>>
    /\ aggregated_df = <<>>

\* lines 313-330: a past day whose EOD file is found is skipped
LookbackEod ==
    /\ pc = "lookback"
    /\ day_offset > 0
    /\ FETCH_EOD_CUMULATIVE_FOR_LOOKBACK
    /\ \E d \in today..LastDay : today' = d
    /\ day_offset' = day_offset - 1
    /\ UNCHANGED <<frameVars, pc, scan_date, current_seq, attempt,
                   last_processed_sequences, cycles, requests, all_dataframes,
                   aggregated_df>>

\* lines 313-337: today, or a past day without an EOD file: the slices of
\* the day are scanned from sequence 1
LookbackSlices ==
    /\ pc = "lookback"
    /\ \E d \in today..LastDay :
           /\ today' = d
           /\ scan_date' = d - day_offset
    /\ current_seq' = 1
    /\ attempt' = 0
    /\ pc' = "lookback_scan"
    /\ UNCHANGED <<frameVars, day_offset, last_processed_sequences, cycles, requests,
                   all_dataframes, aggregated_df>>

\* lines 339-349 and 358: the slice is there and has rows
LookbackSliceFound ==
    /\ pc = "lookback_scan"
    /\ attempt < DTCC_MAX_SEQ_ATTEMPTS_PER_CYCLE
    /\ last_processed_sequences' = Put(last_processed_sequences, scan_date, current_seq)
    /\ requests' = Append(requests, Request(scan_date, current_seq, TRUE, FALSE, current_seq))
    /\ current_seq' = current_seq + 1
    /\ attempt' = attempt + 1
    /\ IF attempt + 1 < DTCC_MAX_SEQ_ATTEMPTS_PER_CYCLE
       THEN UNCHANGED <<pc, day_offset>>
       ELSE IF day_offset = 0
            THEN pc' = "poll" /\ UNCHANGED day_offset
            ELSE pc' = "lookback" /\ day_offset' = day_offset - 1
    /\ UNCHANGED <<frameVars, today, scan_date, cycles, all_dataframes, aggregated_df>>

\* lines 350-357: no slice, an empty one, a 404 or another exception: break
LookbackSliceMissing ==
    /\ pc = "lookback_scan"
    /\ attempt < DTCC_MAX_SEQ_ATTEMPTS_PER_CYCLE
    /\ requests' = Append(requests,
                          Request(scan_date, current_seq, FALSE, FALSE,
                                  Get(last_processed_sequences, scan_date)))
    /\ attempt' = attempt + 1
    /\ IF day_offset = 0
       THEN pc' = "poll" /\ UNCHANGED day_offset
       ELSE pc' = "lookback" /\ day_offset' = day_offset - 1
    /\ UNCHANGED <<frameVars, today, scan_date, current_seq, last_processed_sequences,
                   cycles, all_dataframes, aggregated_df>>

\* lines 363-371: a polling cycle begins; it reads the date and resumes
\* after the last sequence recorded for it
StartCycle ==
    /\ pc = "poll"
    /\ cycles < MaxCycles
    /\ \E d \in today..LastDay :
           /\ today' = d
           /\ scan_date' = d
           /\ current_seq' = NextSeq(last_processed_sequences, d)
    /\ attempt' = 0
    /\ cycles' = cycles + 1
    /\ pc' = "poll_scan"
    /\ UNCHANGED <<frameVars, day_offset, last_processed_sequences, requests,
                   all_dataframes, aggregated_df>>

\* lines 373-384 and 393
PollSliceFound ==
    /\ pc = "poll_scan"
    /\ attempt < DTCC_MAX_SEQ_ATTEMPTS_PER_CYCLE
    /\ last_processed_sequences' = Put(last_processed_sequences, scan_date, current_seq)
    /\ requests' = Append(requests, Request(scan_date, current_seq, TRUE, TRUE, current_seq))
    /\ current_seq' = current_seq + 1
    /\ attempt' = attempt + 1
    /\ pc' = IF attempt + 1 < DTCC_MAX_SEQ_ATTEMPTS_PER_CYCLE THEN "poll_scan" ELSE "poll"
    /\ UNCHANGED <<frameVars, today, day_offset, scan_date, cycles, all_dataframes,
                   aggregated_df>>

\* lines 385-392
PollSliceMissing ==
    /\ pc = "poll_scan"
    /\ attempt < DTCC_MAX_SEQ_ATTEMPTS_PER_CYCLE
    /\ requests' = Append(requests,
                          Request(scan_date, current_seq, FALSE, TRUE,
                                  Get(last_processed_sequences, scan_date)))
    /\ attempt' = attempt + 1
    /\ pc' = "poll"
    /\ UNCHANGED <<frameVars, today, day_offset, scan_date, current_seq,
                   last_processed_sequences, cycles, all_dataframes, aggregated_df>>

NextPoll ==
    \/ LookbackEod \/ LookbackSlices \/ LookbackSliceFound \/ LookbackSliceMissing
    \/ StartCycle \/ PollSliceFound \/ PollSliceMissing

SpecPoll == InitPoll /\ [][NextPoll]_vars

(***************************************************************************)
(* Claims about poll_for_new_slices.                                       *)
(***************************************************************************)
Requests == DOMAIN requests

\* the downloads made for the date of download i before it
Earlier(i) == {j \in 1..(i - 1) : requests[j].date = requests[i].date}

\* the sequence recorded for the date of download i before it
LastBefore(i) ==
    IF Earlier(i) = {} THEN 0
    ELSE requests[CHOOSE j \in Earlier(i) : \A k \in Earlier(i) : k <= j].last

\* C26: the sequence recorded for a date never decreases and grows by 1
\* with every slice found; every download asks for the sequence after the
\* recorded one, so no sequence is skipped, and a polling cycle never asks
\* for a sequence already found.
C26_SequencesInOrder ==
    /\ \A i \in Requests :
           LET r == requests[i]
           IN /\ r.last >= LastBefore(i)
              /\ r.last = LastBefore(i) + (IF r.found THEN 1 ELSE 0)
              /\ r.seq = LastBefore(i) + 1
              /\ r.polling =>
                     ~\E j \in Earlier(i) : requests[j].seq = r.seq /\ requests[j].found
    /\ \A d \in 0..LastDay :
           Get(last_processed_sequences, d)
               = Cardinality({i \in Requests : requests[i].date = d /\ requests[i].found})
    /\ (pc = "poll_scan" /\ attempt = 0) =>
           current_seq = Get(last_processed_sequences, scan_date) + 1

\* the lookback found sequence 1 of a day, a polling cycle found sequence 2
\* of it, and a later cycle of the same day asked for sequence 3
C26_Witness ==
    \E i, j, k \in Requests :
        /\ i < j /\ j < k
        /\ requests[i].date = requests[j].date /\ requests[j].date = requests[k].date
        /\ ~requests[i].polling /\ requests[i].found /\ requests[i].seq = 1
        /\ requests[j].polling /\ requests[j].found /\ requests[j].seq = 2
        /\ requests[k].polling /\ requests[k].seq = 3
        /\ \E l \in Requests : j < l /\ l < k /\ ~requests[l].found

(***************************************************************************)
(* data_aggregator.aggregate_data_for_day.  A step is the EOD download     *)
(* with its preprocessing and filtering (lines 34-58), one iteration of    *)
(* the slice loop (lines 70-104) or the final aggregation (lines 109-153). *)
(* A downloaded file is known by what becomes of it: "missing" (the        *)
(* download returned None), "empty" (a frame without rows), "no_time" (no  *)
(* row is left after preprocess_dtcc_trades), "other_product" (no row is   *)
(* left after apply_product_filtering) or "trades"; a slice download can   *)
(* also end in SliceNotFoundException ("not_found") or the iteration in    *)
(* another exception ("error").  Each download is written to requests as a *)
(* record [source, seq, kind].                                             *)
(***************************************************************************)
FileKinds == {"missing", "empty", "no_time", "other_product", "trades"}
SliceKinds == FileKinds \cup {"not_found", "error"}

Download(source, seq, kind) == [source |-> source, seq |-> seq, kind |-> kind]
Source(source, seq) == [source |-> source, seq |-> seq]

\* lines 39 and 74: the raw frame is there and has rows
HasRawRows(kind) == kind \in {"no_time", "other_product", "trades"}

\* faulty variant of FetchSlices: the slices are fetched whatever the EOD file gave
FetchSlicesAlways(frames) == TRUE

\* line 63: if not all_dataframes
FetchSlices(frames) == frames = <<>>

\* faulty variant of InRange: one attempt more
InRangeInclusive(n) == n <= DTCC_MAX_SEQ_ATTEMPTS_PER_CYCLE

\* line 70: for attempt in range(max_attempts)
InRange(n) == n < DTCC_MAX_SEQ_ATTEMPTS_PER_CYCLE

InitAggregate ==
    /\ NoFrames
    /\ pc = "agg_eod"
    /\ today = 0
    /\ day_offset = 0
    /\ scan_date = 0
    /\ current_seq = 0
    /\ attempt = 0
    /\ last_processed_sequences = EmptyDict
    /\ cycles = 0
    /\ requests = <<>>
    /\ all_dataframes = <<>>
    /\ aggregated_df = <<>>

\* lines 34-68
FetchEod ==
    /\ pc = "agg_eod"
    /\ FETCH_EOD_CUMULATIVE_FOR_LOOKBACK
    /\ \E kind \in FileKinds :
           /\ requests' = Append(requests, Download("EOD", 0, kind))
           /\ all_dataframes' = IF kind = "trades"
                                 THEN Append(all_dataframes, Source("EOD", 0))
                                 ELSE all_dataframes
    /\ IF FetchSlices(all_dataframes')
       THEN pc' = "agg_slices" /\ current_seq' = 1
       ELSE pc' = "agg_concat" /\ UNCHANGED current_seq
    /\ UNCHANGED <<frameVars, today, day_offset, scan_date, attempt,
                   last_processed_sequences, cycles, aggregated_df>>

\* lines 70-104: one iteration of the loop
FetchSlice ==
    /\ pc = "agg_slices"
    /\ InRange(attempt)
    /\ \E kind \in SliceKinds :
           /\ requests' = Append(requests, Download("SLICE", current_seq, kind))
           /\ all_dataframes' = IF kind = "trades"
                                 THEN Append(all_dataframes, Source("SLICE", current_seq))
                                 ELSE all_dataframes
           /\ current_seq' = IF HasRawRows(kind) THEN current_seq + 1 ELSE current_seq
           /\ pc' = IF HasRawRows(kind) /\ InRange(attempt + 1)
                    THEN "agg_slices" ELSE "agg_concat"
    /\ attempt' = attempt + 1
    /\ UNCHANGED <<frameVars, today, day_offset, scan_date, last_processed_sequences,
                   cycles, aggregated_df>>

\* lines 109-153: None, or the frames collected, concatenated
Aggregate ==
    /\ pc = "agg_concat"
    /\ aggregated_df' = IF all_dataframes = <<>> THEN <<Source("None", 0)>>
                        ELSE all_dataframes
    /\ pc' = "agg_returned"
    /\ UNCHANGED <<frameVars, today, day_offset, scan_date, current_seq, attempt,
                   last_processed_sequences, cycles, requests, all_dataframes>>

NextAggregate == FetchEod \/ FetchSlice \/ Aggregate

SpecAggregate == InitAggregate /\ [][NextAggregate]_vars

\* the function runs to its end: every download returns or times out
LiveAggregate == SpecAggregate /\ WF_vars(NextAggregate)

(***************************************************************************)
(* Claims about aggregate_data_for_day.                                    *)
(***************************************************************************)
SliceRequests == {i \in Requests : requests[i].source = "SLICE"}
EodGaveRows == \E i \in Requests : requests[i] = Download("EOD", 0, "trades")

SliceLoopInOrder ==
    /\ \A i \in SliceRequests :
           /\ requests[i].seq = Cardinality({j \in SliceRequests : j <= i})
           /\ ~HasRawRows(requests[i].kind) => \A j \in SliceRequests : j <= i
    /\ Cardinality(SliceRequests) <= DTCC_MAX_SEQ_ATTEMPTS_PER_CYCLE
    /\ pc = "agg_returned" =>
           \A i \in DOMAIN aggregated_df :
               aggregated_df[i].source = "SLICE" =>
                   \E j \in SliceRequests :
                       requests[j] = Download("SLICE", aggregated_df[i].seq, "trades")

\* C28: the slice loop asks for the sequences 1, 2, 3, ... in turn, stops at
\* the first that is not found, is empty or fails, makes no more than
\* DTCC_MAX_SEQ_ATTEMPTS_PER_CYCLE attempts, and aggregate_data_for_day always
\* returns, also after a failure.
C28_SliceLoopTerminates ==
    /\ []SliceLoopInOrder
    /\ <>(pc = "agg_returned")

\* the loop ended because its attempts were used up, and the function
\* returned the slices
C28_Witness ==
    /\ pc = "agg_returned"
    /\ Cardinality(SliceRequests) = DTCC_MAX_SEQ_ATTEMPTS_PER_CYCLE
    /\ \A i \in SliceRequests : HasRawRows(requests[i].kind)
    /\ \E i \in DOMAIN aggregated_df : aggregated_df[i].source = "SLICE"

(***************************************************************************)
(* data_aggregator.apply_product_filtering.                                *)
(***************************************************************************)
MaxFilterRows == 2

unique_product_identifier == Snake(<<"unique", "product", "identifier">>)
product_name == Snake(<<"product", "name">>)

\* config.TARGET_UPI as shipped
TARGET_UPI == Text("QZ0PH5HG4P9T")
\* config.DTCC_PRODUCT_ID_PATTERN as shipped
DTCC_PRODUCT_ID_PATTERN == Text("CDX\\.NA\\.IG\\.S\\d+")

\* the settings a configuration may hold: the shipped value, None, and for
\* the UPI the empty string
UpiSettings == {TARGET_UPI, PyNone, Text("")}
PatternSettings == {DTCC_PRODUCT_ID_PATTERN, PyNone}

\* the cells of the two columns the filter reads
UpiCells == {TARGET_UPI, Text("QZ0PH5HG4P9X"), NaN}
NameCells == {Text("CDX.NA.IG.S44 V1 5Y"), Text("cdx.na.ig.s44 v1 5y"),
              Text("CDX.NA.HY.S44 V1 5Y"), NaN}

\* the optional columns of a preprocessed frame, next to dissemination_id
FilterLayouts ==
    { <<dissemination_id>>,
      <<dissemination_id, unique_product_identifier>>,
      <<dissemination_id, product_name>>,
      <<dissemination_id, unique_product_identifier, product_name>> }

\* `if target_upi:`, `if product_id_pattern:`
Truthy(c) == c # PyNone /\ c # Text("")

\* re.search(DTCC_PRODUCT_ID_PATTERN, text, re.IGNORECASE) on the texts of
\* NameCells: "cdx.na.ig.s" followed by a digit, in any casing
Contains(text, pattern) ==
    /\ pattern = DTCC_PRODUCT_ID_PATTERN
    /\ text \in {Text("CDX.NA.IG.S44 V1 5Y"), Text("cdx.na.ig.s44 v1 5y")}

\* df[df[col] == value]
WhereEquals(df, col, value) ==
    Frame(df.cols, SelectSeq(df.rows, LAMBDA row : At(df, row, col) = value))

\* df[df[col].astype(str).str.contains(pattern, case=False, na=False, regex=True)]
WhereContains(df, col, pattern) ==
    Frame(df.cols,
          SelectSeq(df.rows, LAMBDA row : Contains(PyStr(At(df, row, col)), pattern)))

\* a faulty variant of apply_product_filtering: the pattern filter runs on
\* the rows the UPI filter kept
apply_both_filters(df, upi, pattern) ==
    LET byUpi == IF Truthy(upi) /\ HasCol(df, unique_product_identifier)
                 THEN WhereEquals(df, unique_product_identifier, upi)
                 ELSE df
    IN IF IsEmpty(df) THEN EmptyFrame
       ELSE IF Truthy(pattern) /\ HasCol(df, product_name)
       THEN WhereContains(byUpi, product_name, pattern)
       ELSE byUpi

apply_product_filtering(df, upi, pattern) ==
    IF IsEmpty(df) THEN EmptyFrame
    ELSE IF Truthy(upi) /\ HasCol(df, unique_product_identifier)
    THEN WhereEquals(df, unique_product_identifier, upi)
    ELSE IF Truthy(pattern)
    THEN IF HasCol(df, product_name)
         THEN WhereContains(df, product_name, pattern)
         ELSE df
    ELSE df

InitFilter ==
    /\ IdleFrames
    /\ IdleFetch
    /\ target_upi \in UpiSettings
    /\ product_id_pattern \in PatternSettings
    /\ \E cols \in FilterLayouts : unfiltered_df = Frame(cols, <<>>)
    /\ filtered = [returned |-> FALSE, df |-> EmptyFrame]

\* one more row in the frame the caller passes
AddFilterRow ==
    /\ ~filtered.returned
    /\ Len(unfiltered_df.rows) < MaxFilterRows
    /\ \E upi \in UpiCells, name \in NameCells :
           LET id == NumStr(Len(unfiltered_df.rows) + 1)
               row == [i \in DOMAIN unfiltered_df.cols |->
                           IF unfiltered_df.cols[i] = unique_product_identifier THEN upi
                           ELSE IF unfiltered_df.cols[i] = product_name THEN name
                           ELSE id]
           IN unfiltered_df' = Frame(unfiltered_df.cols, Append(unfiltered_df.rows, row))
    /\ UNCHANGED <<raw_df, resolved_df, rerun_df, stage, dtcc_trades_df,
                   bloomberg_mids_df, classified_df, outcome, bloomberg_ticks_df,
                   market_state, pc, today, day_offset, scan_date, current_seq,
                   attempt, last_processed_sequences, cycles, requests,
                   all_dataframes, aggregated_df, target_upi, product_id_pattern,
                   filtered>>

ApplyProductFiltering ==
    /\ ~filtered.returned
    /\ filtered' = [returned |-> TRUE,
                    df |-> apply_product_filtering(unfiltered_df, target_upi,
                                                   product_id_pattern)]
    /\ UNCHANGED <<raw_df, resolved_df, rerun_df, stage, dtcc_trades_df,
                   bloomberg_mids_df, classified_df, outcome, bloomberg_ticks_df,
                   market_state, pc, today, day_offset, scan_date, current_seq,
                   attempt, last_processed_sequences, cycles, requests,
                   all_dataframes, aggregated_df, target_upi, product_id_pattern,
                   unfiltered_df>>

NextFilter == AddFilterRow \/ ApplyProductFiltering
SpecFilter == InitFilter /\ [][NextFilter]_vars

\* the rows of the input frame by what the two filters say of them
InputRows == DOMAIN unfiltered_df.rows
UpiApplies == Truthy(target_upi) /\ HasCol(unfiltered_df, unique_product_identifier)
PatternApplies ==
    /\ ~UpiApplies
    /\ Truthy(product_id_pattern)
    /\ HasCol(unfiltered_df, product_name)
UpiEquals(i) == At(unfiltered_df, unfiltered_df.rows[i], unique_product_identifier) = target_upi
NameMatches(i) ==
    LET name == At(unfiltered_df, unfiltered_df.rows[i], product_name)
    IN /\ name.k = "text"
       /\ name # Text("CDX.NA.HY.S44 V1 5Y")

\* C29: apply_product_filtering applies exactly one filter.  With TARGET_UPI
\* configured and the unique_product_identifier column present the result
\* is exactly the rows whose UPI equals TARGET_UPI, whatever their product
\* name; the pattern filter is applied only when TARGET_UPI is unset or its
\* column is missing; and when no filter is applicable a non-empty input is
\* returned unchanged.
C29_ExactlyOneFilter ==
    (filtered.returned /\ ~IsEmpty(unfiltered_df)) =>
        /\ UpiApplies =>
               filtered.df = Frame(unfiltered_df.cols,
                                   RowsAt(unfiltered_df, {i \in InputRows : UpiEquals(i)}))
        /\ PatternApplies =>
               filtered.df = Frame(unfiltered_df.cols,
                                   RowsAt(unfiltered_df, {i \in InputRows : NameMatches(i)}))
        /\ (~UpiApplies /\ ~PatternApplies) => filtered.df = unfiltered_df

\* the UPI filter kept a row whose product name the pattern rejects and
\* dropped a row whose product name the pattern accepts
C29_Witness ==
    /\ filtered.returned
    /\ UpiApplies
    /\ Truthy(product_id_pattern)
    /\ HasCol(unfiltered_df, product_name)
    /\ \E i, j \in InputRows :
           /\ UpiEquals(i) /\ ~NameMatches(i)
           /\ ~UpiEquals(j) /\ NameMatches(j)
    /\ Len(filtered.df.rows) = 1

(***************************************************************************)
(* Price-basis trades under the shipped converter.                         *)
(***************************************************************************)
\* trade i is quoted on a price basis
PriceBasis(i) == QuoteOf(i).quote_basis = "price"

\* the labels that name a side, as the code and as the documents spell them
SideLabels == Sides \cup {"buy", "sell"}

\* C30: with the converter of economic_conversions, which returns NaN for
\* every input that is not None, no price-basis trade is labelled with a
\* side or mid_market, and every price-basis trade whose reference point in
\* the latency window has a mid that is a number is labelled
\* unclassifiable_conversion_failed.
C30_NoSideForPriceBasis ==
    Labelled =>
        \A i \in Trades :
            PriceBasis(i) =>
                /\ LabelOf(i) \notin SideLabels
                /\ (GoodQuote(i) /\ NumericReference(i)) =>
                       LabelOf(i) = "unclassifiable_conversion_failed"

\* a price-basis trade and a spread-basis trade of one batch share a
\* numeric reference mid: the spread trade gets a side, the price trade
\* unclassifiable_conversion_failed
C30_Witness ==
    /\ Labelled
    /\ \E i, j \in Trades :
           /\ PriceBasis(i) /\ GoodQuote(i) /\ NumericReference(i)
           /\ SpreadQuote(j) /\ NumericReference(j)
           /\ Reference(i) = Reference(j)
           /\ LabelOf(j) \in Sides
           /\ LabelOf(i) = "unclassifiable_conversion_failed"

====
